---- MODULE Spec2Model ----
(***************************************************************************)
(* pure-md5: the streaming MD5 engine (MD5Stream), the one-shot functions  *)
(* (md5, md5Core), the digest encoder (hex) and the PureJSBackend session. *)
(*                                                                         *)
(* Numbers are JavaScript 32-bit words in their signed representation      *)
(* (-2^31 .. 2^31-1), which is what the bitwise operators of the source    *)
(* return.  No intermediate value leaves that range.                       *)
(***************************************************************************)
EXTENDS Integers, Sequences, FiniteSets, TLC

(***************************************************************************)
(* 32-bit word arithmetic                                                  *)
(***************************************************************************)
MaxInt32 == 2147483647
MinInt32 == -MaxInt32 - 1

Pow2 == [n \in 0..30 |-> 2^n]

\* bit k of a 4-bit value
NibBit(a, k) == (a \div Pow2[k]) % 2
AndBit(p, q) == p * q
OrBit(p, q) == p + q - p * q
XorBit(p, q) == (p + q) % 2

\* the bitwise operators on 4-bit values, tabulated; index 16 * a + b
AndTab == [i \in 0..255 |->
  AndBit(NibBit(i \div 16, 0), NibBit(i % 16, 0))
  + 2 * AndBit(NibBit(i \div 16, 1), NibBit(i % 16, 1))
  + 4 * AndBit(NibBit(i \div 16, 2), NibBit(i % 16, 2))
  + 8 * AndBit(NibBit(i \div 16, 3), NibBit(i % 16, 3))]
OrTab == [i \in 0..255 |->
  OrBit(NibBit(i \div 16, 0), NibBit(i % 16, 0))
  + 2 * OrBit(NibBit(i \div 16, 1), NibBit(i % 16, 1))
  + 4 * OrBit(NibBit(i \div 16, 2), NibBit(i % 16, 2))
  + 8 * OrBit(NibBit(i \div 16, 3), NibBit(i % 16, 3))]
XorTab == [i \in 0..255 |->
  XorBit(NibBit(i \div 16, 0), NibBit(i % 16, 0))
  + 2 * XorBit(NibBit(i \div 16, 1), NibBit(i % 16, 1))
  + 4 * XorBit(NibBit(i \div 16, 2), NibBit(i % 16, 2))
  + 8 * XorBit(NibBit(i \div 16, 3), NibBit(i % 16, 3))]

\* the signed word whose nibbles are tab[16 * nibble of x + nibble of y],
\* nibbles taken from the two's complement forms of x and y
Bitwise(tab, x, y) ==
  LET top == tab[16 * ((x \div 268435456) % 16) + ((y \div 268435456) % 16)]
  IN  tab[16 * (x % 16) + (y % 16)]
      + 16 * tab[16 * ((x \div 16) % 16) + ((y \div 16) % 16)]
      + 256 * tab[16 * ((x \div 256) % 16) + ((y \div 256) % 16)]
      + 4096 * tab[16 * ((x \div 4096) % 16) + ((y \div 4096) % 16)]
      + 65536 * tab[16 * ((x \div 65536) % 16) + ((y \div 65536) % 16)]
      + 1048576 * tab[16 * ((x \div 1048576) % 16) + ((y \div 1048576) % 16)]
      + 16777216 * tab[16 * ((x \div 16777216) % 16) + ((y \div 16777216) % 16)]
      + 268435456 * (IF top >= 8 THEN top - 16 ELSE top)

And32(x, y) == Bitwise(AndTab, x, y)   \* x & y
Or32(x, y) == Bitwise(OrTab, x, y)     \* x | y
Xor32(x, y) == Bitwise(XorTab, x, y)   \* x ^ y
\* ~x taken as the arithmetic negation
Not32_negate(x) == IF x = MinInt32 THEN x ELSE -x

Not32(x) == -1 - x                     \* ~x

\* x << s on a 32-bit word, 0 <= s <= 31
Shl32(x, s) ==
  IF s = 0 THEN x
  ELSE LET low == x % Pow2[32 - s]
       IN  IF low >= Pow2[31 - s] THEN (low - Pow2[32 - s]) * Pow2[s]
           ELSE low * Pow2[s]

\* x >>> n on a 32-bit word, 1 <= n <= 31
Shr32u(x, n) == (x \div Pow2[n]) % Pow2[32 - n]

\* x >> n (sign-propagating), 0 <= n <= 30
Shr32(x, n) == x \div Pow2[n]

\* ToInt32(x + y) for 32-bit words x and y: (x + y) & 0xffffffff
add32(x, y) ==
  IF x >= 0 /\ y >= 0 /\ y > MaxInt32 - x
    THEN (x - MaxInt32 - 1) + (y - MaxInt32 - 1)
  ELSE IF x < 0 /\ y < 0 /\ y < MinInt32 - x
    THEN (x + MaxInt32 + 1) + (y + MaxInt32 + 1)
  ELSE x + y

(***************************************************************************)
(* The compression function                                                *)
(***************************************************************************)
\* the fallback adder without the carry out of the low half
add32Split_noCarry(x, y) ==
  Shl32((x \div 65536) + (y \div 65536), 16)
  + (((x % 65536) + (y % 65536)) % 65536)

\* the adder md5() falls back to when its self-check fails
\* lsw = (x & 0xffff) + (y & 0xffff); msw = (x >> 16) + (y >> 16) + (lsw >> 16);
\* (msw << 16) | (lsw & 0xffff).  On 32-bit words v & 0xffff is v % 65536 and
\* v >> 16 is v \div 65536; the low 16 bits of msw << 16 are 0, so | adds.
add32Split(x, y) ==
  Shl32((x \div 65536) + (y \div 65536) + (((x % 65536) + (y % 65536)) \div 65536), 16)
  + (((x % 65536) + (y % 65536)) % 65536)

\* An adder argument fn is named by a string: "add32", "add32Split", or
\* "undefined" when the caller passes none.  Call(fn, x, y) is (fn || add32)(x, y).
Call(fn, x, y) ==
  IF fn = "add32Split" THEN add32Split(x, y) ELSE add32(x, y)

\* fn is the adder handed down from md5cycle
cmn1(q, a, x, t, fn) == Call(fn, Call(fn, a, q), Call(fn, x, t))
cmn2(a, s, b, fn) == Call(fn, Or32(Shl32(a, s), Shr32u(a, 32 - s)), b)
cmn(q, a, b, x, s, t, fn) == cmn2(cmn1(q, a, x, t, fn), s, b, fn)

ff(fn, a, b, c, d, x, s, t) ==
  cmn(Or32(And32(b, c), And32(Not32(b), d)), a, b, x, s, t, fn)
gg(fn, a, b, c, d, x, s, t) ==
  cmn(Or32(And32(b, d), And32(c, Not32(d))), a, b, x, s, t, fn)
hh(fn, a, b, c, d, x, s, t) ==
  cmn(Xor32(Xor32(b, c), d), a, b, x, s, t, fn)
ii(fn, a, b, c, d, x, s, t) ==
  cmn(Xor32(c, Or32(b, Not32(d))), a, b, x, s, t, fn)

\* The 64 calls of md5cycle, in order: call i reads k[BlockIndex[i] - 1] of the
\* source, rotates by Shift[i] and adds Sine[i].  Calls 1..16 are ff, 17..32 gg,
\* 33..48 hh, 49..64 ii.
BlockIndex == <<
  1, 2, 3, 4, 5, 6, 7, 8, 9, 10, 11, 12, 13, 14, 15, 16,
  2, 7, 12, 1, 6, 11, 16, 5, 10, 15, 4, 9, 14, 3, 8, 13,
  6, 9, 12, 15, 2, 5, 8, 11, 14, 1, 4, 7, 10, 13, 16, 3,
  1, 8, 15, 6, 13, 4, 11, 2, 9, 16, 7, 14, 5, 12, 3, 10
>>
Shift == <<
  7, 12, 17, 22, 7, 12, 17, 22, 7, 12, 17, 22, 7, 12, 17, 22,
  5, 9, 14, 20, 5, 9, 14, 20, 5, 9, 14, 20, 5, 9, 14, 20,
  4, 11, 16, 23, 4, 11, 16, 23, 4, 11, 16, 23, 4, 11, 16, 23,
  6, 10, 15, 21, 6, 10, 15, 21, 6, 10, 15, 21, 6, 10, 15, 21
>>
Sine == <<
  -680876936, -389564586, 606105819, -1044525330,
  -176418897, 1200080426, -1473231341, -45705983,
  1770035416, -1958414417, -42063, -1990404162,
  1804603682, -40341101, -1502002290, 1236535329,
  -165796510, -1069501632, 643717713, -373897302,
  -701558691, 38016083, -660478335, -405537848,
  568446438, -1019803690, -187363961, 1163531501,
  -1444681467, -51403784, 1735328473, -1926607734,
  -378558, -2022574463, 1839030562, -35309556,
  -1530992060, 1272893353, -155497632, -1094730640,
  681279174, -358537222, -722521979, 76029189,
  -640364487, -421815835, 530742520, -995338651,
  -198630844, 1126891415, -1416354905, -57434055,
  1700485571, -1894986606, -1051523, -2054922799,
  1873313359, -30611744, -1560198380, 1309151649,
  -145523070, -1120210379, 718787259, -343485551
>>

\* One call a = ff(a, b, c, d, x, s, t) of md5cycle.  The source's calls assign
\* a, d, c and b in turn, each from the other three in the same cyclic order, so
\* a call takes v = <<a, b, c, d>> to <<d, a', b, c>>: the variable the next call
\* assigns comes first again, and four calls bring <<a, b, c, d>> back in place.
md5step(fn, v, i, x) ==
  <<v[4],
    IF i <= 16 THEN ff(fn, v[1], v[2], v[3], v[4], x, Shift[i], Sine[i])
    ELSE IF i <= 32 THEN gg(fn, v[1], v[2], v[3], v[4], x, Shift[i], Sine[i])
    ELSE IF i <= 48 THEN hh(fn, v[1], v[2], v[3], v[4], x, Shift[i], Sine[i])
    ELSE ii(fn, v[1], v[2], v[3], v[4], x, Shift[i], Sine[i]),
    v[2], v[3]>>

\* x[0] = fn(a, x[0]); x[1] = fn(b, x[1]); x[2] = fn(c, x[2]); x[3] = fn(d, x[3])
addState(fn, v, x) ==
  [x EXCEPT ![1] = Call(fn, v[1], @), ![2] = Call(fn, v[2], @),
            ![3] = Call(fn, v[3], @), ![4] = Call(fn, v[4], @)]

\* the values <<a, b, c, d>> can take
Words4 == Int \X Int \X Int \X Int

\* md5cycle(x, k): the state array x after block k (16 words, k[1] is k[0] of the
\* source); run[i, v] is <<a, b, c, d>> after the last call, given the rotated
\* value v before call i
md5cycle(x, k, fn) ==
  LET run[i \in 1..65, v \in Words4] ==
        IF i > 64 THEN v
        ELSE run[i + 1, md5step(fn, v, i, k[BlockIndex[i]])]
  IN  addState(fn, run[1, <<x[1], x[2], x[3], x[4]>>], x)

(***************************************************************************)
(* The digest encoder                                                      *)
(***************************************************************************)
hex_chr == <<"0", "1", "2", "3", "4", "5", "6", "7",
             "8", "9", "a", "b", "c", "d", "e", "f">>

\* rhex writing the low nibble of each byte before the high one
RECURSIVE rhexFrom_lowNibbleFirst(_, _)
rhexFrom_lowNibbleFirst(n, j) ==
  IF j > 3 THEN ""
  ELSE hex_chr[And32(Shr32(n, j * 8), 15) + 1]
       \o hex_chr[And32(Shr32(n, j * 8 + 4), 15) + 1]
       \o rhexFrom_lowNibbleFirst(n, j + 1)

\* rhex stopping after the third byte
RECURSIVE rhexFrom_threeBytes(_, _)
rhexFrom_threeBytes(n, j) ==
  IF j > 2 THEN ""
  ELSE hex_chr[And32(Shr32(n, j * 8 + 4), 15) + 1]
       \o hex_chr[And32(Shr32(n, j * 8), 15) + 1]
       \o rhexFrom_threeBytes(n, j + 1)

\* rhex(n): for j = 0..3, the high nibble then the low nibble of byte j
RECURSIVE rhexFrom(_, _)
rhexFrom(n, j) ==
  IF j > 3 THEN ""
  ELSE hex_chr[And32(Shr32(n, j * 8 + 4), 15) + 1]
       \o hex_chr[And32(Shr32(n, j * 8), 15) + 1]
       \o rhexFrom(n, j + 1)
rhex(n) == rhexFrom(n, 0)

\* hex(x): rhex of every word, joined in index order
RECURSIVE hexFrom(_, _)
hexFrom(x, i) == IF i > Len(x) THEN "" ELSE rhex(x[i]) \o hexFrom(x, i + 1)
hex(x) == hexFrom(x, 1)

(***************************************************************************)
(* Inputs.  A string is the sequence of its character codes, a Buffer the  *)
(* sequence of its bytes.                                                  *)
(***************************************************************************)
\* ""
Vector1 == << >>
\* "a"
Vector2 == <<
    97 >>
\* "abc"
Vector3 == <<
    97, 98, 99 >>
\* "message digest"
Vector4 == <<
    109, 101, 115, 115, 97, 103, 101, 32, 100, 105, 103, 101, 115, 116 >>
\* "abcdefghijklmnopqrstuvwxyz"
Vector5 == <<
    97, 98, 99, 100, 101, 102, 103, 104, 105, 106, 107, 108, 109, 110, 111, 112,
    113, 114, 115, 116, 117, 118, 119, 120, 121, 122 >>
\* "ABCDEFGHIJKLMNOPQRSTUVWXYZabcdefghijklmnopqrstuvwxyz0123456789"
Vector6 == <<
    65, 66, 67, 68, 69, 70, 71, 72, 73, 74, 75, 76, 77, 78, 79, 80,
    81, 82, 83, 84, 85, 86, 87, 88, 89, 90, 97, 98, 99, 100, 101, 102,
    103, 104, 105, 106, 107, 108, 109, 110, 111, 112, 113, 114, 115, 116, 117, 118,
    119, 120, 121, 122, 48, 49, 50, 51, 52, 53, 54, 55, 56, 57 >>
\* "12345678901234567890123456789012345678901234567890123456789012345678901234567890"
Vector7 == <<
    49, 50, 51, 52, 53, 54, 55, 56, 57, 48, 49, 50, 51, 52, 53, 54,
    55, 56, 57, 48, 49, 50, 51, 52, 53, 54, 55, 56, 57, 48, 49, 50,
    51, 52, 53, 54, 55, 56, 57, 48, 49, 50, 51, 52, 53, 54, 55, 56,
    57, 48, 49, 50, 51, 52, 53, 54, 55, 56, 57, 48, 49, 50, 51, 52,
    53, 54, 55, 56, 57, 48, 49, 50, 51, 52, 53, 54, 55, 56, 57, 48 >>

RFCVectors == <<Vector1, Vector2, Vector3, Vector4, Vector5, Vector6, Vector7>>
RFCDigests == <<
  "d41d8cd98f00b204e9800998ecf8427e",
  "0cc175b9c0f1b6a831c399e269772661",
  "900150983cd24fb0d6963f7d28e17f72",
  "f96b697d7cb7938d525a2f31aaf161d0",
  "c3fcd3d76192e4007dfb496cca67e13b",
  "d174ab98d277d9f5a5611c2c9f419d9f",
  "57edf4a22be3c955ac49da2e2107b67a" >>

\* length of the long input: two full blocks and a partial one
MaxTotal == 130
\* a long input whose bytes cover both halves of 0..255
LongInput == [i \in 1..MaxTotal |-> (i * 37 + 91) % 256]

Messages == RFCVectors \o <<LongInput>>
NumMessages == Len(Messages)

\* the lengths of the chunks handed to write()
ChunkLens == {0, 1, 2, 3, 55, 56, 62, 63, 64, 65, 127, 128, 129}

Min(a, b) == IF a < b THEN a ELSE b

(***************************************************************************)
(* MD5Stream (the Uint8Array buffer version).  S is this.state together    *)
(* with S.fed, the blocks handed to md5cycle since the session began.      *)
(***************************************************************************)
initialMD5State == <<1732584193, -271733879, -1732584194, 271733878>>
EmptyBuffer == [i \in 1..64 |-> 0]     \* new Uint8Array(64)

\* the word read at byte offset idx (0-based) of data:
\* data[idx] + (data[idx + 1] << 8) + (data[idx + 2] << 16) + (data[idx + 3] << 24)
WordAt(data, idx) ==
  data[idx + 1] + Shl32(data[idx + 2], 8) + Shl32(data[idx + 3], 16)
  + Shl32(data[idx + 4], 24)

\* the sixteen words of the 64 bytes of data that start at blockStart
BlockAt(data, blockStart) ==
  <<WordAt(data, blockStart), WordAt(data, blockStart + 4),
    WordAt(data, blockStart + 8), WordAt(data, blockStart + 12),
    WordAt(data, blockStart + 16), WordAt(data, blockStart + 20),
    WordAt(data, blockStart + 24), WordAt(data, blockStart + 28),
    WordAt(data, blockStart + 32), WordAt(data, blockStart + 36),
    WordAt(data, blockStart + 40), WordAt(data, blockStart + 44),
    WordAt(data, blockStart + 48), WordAt(data, blockStart + 52),
    WordAt(data, blockStart + 56), WordAt(data, blockStart + 60)>>

\* md5cycle(this.state.state, block, this.add32); this.state.bytesProcessed += 64
Compress(S, block) ==
  [S EXCEPT !.state = md5cycle(S.state, block, "add32"),
            !.bytesProcessed = @ + 64,
            !.fed = Append(@, block)]

\* _processBufferBlock leaving bufferLength at 64
_processBufferBlock_keepLength(S) == Compress(S, BlockAt(S.buffer, 0))

_processBufferBlock(S) ==
  [Compress(S, BlockAt(S.buffer, 0)) EXCEPT !.bufferLength = 0]

\* the loop over the full blocks of data, from block i on
RECURSIVE ProcessFullBlocks(_, _, _, _)
ProcessFullBlocks(S, data, i, fullBlocks) ==
  IF i >= fullBlocks THEN S
  ELSE ProcessFullBlocks(Compress(S, BlockAt(data, i * 64)), data, i + 1, fullBlocks)

\* TransformRest storing the first bytes of data, not the bytes after the
\* last full block, as the remainder
TransformRest_remainderFromStart(S, data) ==
  LET fullBlocks == Len(data) \div 64
      S2 == ProcessFullBlocks(S, data, 0, fullBlocks)
      remaining == Len(data) % 64
  IN  IF remaining > 0
      THEN [S2 EXCEPT
             !.buffer = [i \in 1..64 |->
                IF i <= remaining THEN data[i] ELSE S2.buffer[i]],
             !.bufferLength = remaining]
      ELSE S2

\* the part of _transform after the pending buffer has been dealt with
TransformRest(S, data) ==
  LET fullBlocks == Len(data) \div 64
      S2 == ProcessFullBlocks(S, data, 0, fullBlocks)
      remaining == Len(data) % 64
  IN  IF remaining > 0
      THEN [S2 EXCEPT
             !.buffer = [i \in 1..64 |->
                IF i <= remaining THEN data[fullBlocks * 64 + i] ELSE S2.buffer[i]],
             !.bufferLength = remaining]
      ELSE S2

\* _transform compressing the buffer as it stands on an empty chunk
_transform_emptyCompresses(S, chunk) ==
  LET dataLength == Len(chunk)
      currentBufferLength == S.bufferLength
      neededBytes == 64 - currentBufferLength
      bytesToCopy == Min(dataLength, neededBytes)
      copied == [S EXCEPT
        !.buffer = [i \in 1..64 |->
           IF i > currentBufferLength /\ i <= currentBufferLength + bytesToCopy
           THEN chunk[i - currentBufferLength] ELSE S.buffer[i]],
        !.bufferLength = currentBufferLength + bytesToCopy]
      S1 == IF copied.bufferLength = 64 THEN _processBufferBlock(copied) ELSE copied
  IN  IF dataLength = 0 THEN _processBufferBlock(S)
      ELSE IF currentBufferLength > 0
      THEN IF bytesToCopy = dataLength THEN S1
           ELSE TransformRest(S1, SubSeq(chunk, bytesToCopy + 1, dataLength))
      ELSE TransformRest(S, chunk)

\* _transform compressing the buffer after every copy into it, full or not
_transform_compressPartial(S, chunk) ==
  LET dataLength == Len(chunk)
      currentBufferLength == S.bufferLength
      neededBytes == 64 - currentBufferLength
      bytesToCopy == Min(dataLength, neededBytes)
      copied == [S EXCEPT
        !.buffer = [i \in 1..64 |->
           IF i > currentBufferLength /\ i <= currentBufferLength + bytesToCopy
           THEN chunk[i - currentBufferLength] ELSE S.buffer[i]],
        !.bufferLength = currentBufferLength + bytesToCopy]
      S1 == IF copied.bufferLength = 64 THEN _processBufferBlock(copied)
            ELSE _processBufferBlock_keepLength(copied)
  IN  IF dataLength = 0 THEN S
      ELSE IF currentBufferLength > 0
      THEN IF bytesToCopy = dataLength THEN S1
           ELSE TransformRest(S1, SubSeq(chunk, bytesToCopy + 1, dataLength))
      ELSE TransformRest(S, chunk)

_transform(S, chunk) ==
  LET dataLength == Len(chunk)
      currentBufferLength == S.bufferLength
      neededBytes == 64 - currentBufferLength
      bytesToCopy == Min(dataLength, neededBytes)
      copied == [S EXCEPT
        !.buffer = [i \in 1..64 |->
           IF i > currentBufferLength /\ i <= currentBufferLength + bytesToCopy
           THEN chunk[i - currentBufferLength] ELSE S.buffer[i]],
        !.bufferLength = currentBufferLength + bytesToCopy]
      S1 == IF copied.bufferLength = 64 THEN _processBufferBlock(copied) ELSE copied
  IN  IF dataLength = 0 THEN S
      ELSE IF currentBufferLength > 0
      THEN IF bytesToCopy = dataLength THEN S1
           ELSE TransformRest(S1, SubSeq(chunk, bytesToCopy + 1, dataLength))
      ELSE TransformRest(S, chunk)

\* the word md5cycle's additions read from the number n * 8 stored in tail[14]:
\* its low 32 bits (n < 2^31)
LengthWord(n) ==
  LET m == n % 536870912
  IN  IF m >= 268435456 THEN (m - 536870912) * 8 ELSE m * 8

\* byte i (0-based) of the padded tail: the pending bytes, then 0x80, then zeros
TailByte(buffer, bufferLength, i) ==
  IF i < bufferLength THEN And32(buffer[i + 1], 255)
  ELSE IF i = bufferLength THEN 128 ELSE 0

\* word j (0-based) of tail after the copy loop and the 0x80 step:
\* tail[i >> 2] |= byte << ((i % 4) << 3) for the four i of the word
TailWord(buffer, bufferLength, j) ==
  Or32(Or32(Or32(Or32(0,
    Shl32(TailByte(buffer, bufferLength, 4 * j), 0)),
    Shl32(TailByte(buffer, bufferLength, 4 * j + 1), 8)),
    Shl32(TailByte(buffer, bufferLength, 4 * j + 2), 16)),
    Shl32(TailByte(buffer, bufferLength, 4 * j + 3), 24))

ZeroTail == [j \in 1..16 |-> 0]

\* _flush taking the extra block only above 56 pending bytes
FinalBlocks_above56(buffer, bufferLength, bytesProcessed) ==
  LET tail == [j \in 1..16 |-> TailWord(buffer, bufferLength, j - 1)]
      lengthWord == LengthWord(bytesProcessed + bufferLength)
  IN  IF bufferLength > 56
      THEN <<tail, [ZeroTail EXCEPT ![15] = lengthWord, ![16] = 0]>>
      ELSE <<[tail EXCEPT ![15] = lengthWord, ![16] = 0]>>

\* the blocks _flush hands to md5cycle, in order
FinalBlocks(buffer, bufferLength, bytesProcessed) ==
  LET tail == [j \in 1..16 |-> TailWord(buffer, bufferLength, j - 1)]
      lengthWord == LengthWord(bytesProcessed + bufferLength)
  IN  IF bufferLength > 55
      THEN <<tail, [ZeroTail EXCEPT ![15] = lengthWord, ![16] = 0]>>
      ELSE <<[tail EXCEPT ![15] = lengthWord, ![16] = 0]>>

RECURSIVE CompressAll(_, _, _)
CompressAll(S, blocks, i) ==
  IF i > Len(blocks) THEN S
  ELSE CompressAll([S EXCEPT !.state = md5cycle(S.state, blocks[i], "add32"),
                             !.fed = Append(@, blocks[i])], blocks, i + 1)

\* _flush reporting only the bytes of the compressed blocks
_flush_blocksOnly(S) ==
  LET after == CompressAll(S, FinalBlocks(S.buffer, S.bufferLength, S.bytesProcessed), 1)
  IN  [after |-> after,
       md5 |-> [digest |-> hex(after.state), bytesProcessed |-> S.bytesProcessed]]

\* _flush: the session after the final cycles (bytesProcessed and bufferLength
\* are left as they were) and the object emitted with 'md5'
_flush(S) ==
  LET after == CompressAll(S, FinalBlocks(S.buffer, S.bufferLength, S.bytesProcessed), 1)
  IN  [after |-> after,
       md5 |-> [digest |-> hex(after.state),
                bytesProcessed |-> S.bytesProcessed + S.bufferLength]]

getBytesProcessed(S) == S.bytesProcessed + S.bufferLength
getCurrentState(S) ==
  [state |-> S.state, bytesProcessed |-> S.bytesProcessed + S.bufferLength]

\* reset(): the fields of a fresh this.state and a fresh buffer
\* getCurrentState handing out this.state.state itself
getCurrentStateArray_same == "this.state.state"

\* the array getCurrentState() returns in `state`: [...this.state.state] is a
\* new array, not the array the session works on
getCurrentStateArray == "new array"

\* reset keeping the pending bytes
reset_keepPending(S) ==
  [state |-> initialMD5State, bytesProcessed |-> 0, bufferLength |-> S.bufferLength,
   buffer |-> S.buffer, fed |-> << >>]

reset(S) ==
  [state |-> initialMD5State, bytesProcessed |-> 0, bufferLength |-> 0,
   buffer |-> EmptyBuffer, fed |-> << >>]

\* the state the constructor leaves
NewMD5Stream ==
  [state |-> initialMD5State, bytesProcessed |-> 0, bufferLength |-> 0,
   buffer |-> EmptyBuffer, fed |-> << >>]

(***************************************************************************)
(* The one-shot functions                                                  *)
(***************************************************************************)
\* md5blk(s) for the 64 characters of s that start at offset
md5blk(s, offset) == BlockAt(s, offset)

\* md51(s, add32): the four state words
md51(s, fn) ==
  LET n == Len(s)
      full == (n \div 64) * 64
      \* after[i]: the state after the first i full blocks
      after[i \in 0..(n \div 64)] ==
        IF i = 0 THEN initialMD5State
        ELSE md5cycle(after[i - 1], md5blk(s, (i - 1) * 64), fn)
      state == after[n \div 64]
      rest == SubSeq(s, full + 1, n)
      sl == Len(rest)
      tail == [j \in 1..16 |-> TailWord(rest, sl, j - 1)]
      state2 == IF sl > 55 THEN md5cycle(state, tail, fn) ELSE state
      tail2 == IF sl > 55 THEN ZeroTail ELSE tail
  IN  md5cycle(state2, [tail2 EXCEPT ![15] = LengthWord(n)], fn)

Hello == <<
    104, 101, 108, 108, 111 >>

\* md5(string) of src/index.ts: the self-check picks the adder
md5(string) ==
  IF hex(md51(Hello, "undefined")) # "5d41402abc4b2a76b9719d911017c592"
  THEN hex(md51(string, "add32Split"))
  ELSE hex(md51(string, "undefined"))

md5Core(string) == hex(md51(string, "add32"))

\* the arguments md51 hands to md5cycle, in order: md5blk of every 64
\* characters, then the tail (twice when more than 55 characters are left)
md51Blocks(s) ==
  LET n == Len(s)
      rest == SubSeq(s, (n \div 64) * 64 + 1, n)
      sl == Len(rest)
      tail == [j \in 1..16 |-> TailWord(rest, sl, j - 1)]
  IN  [i \in 1..(n \div 64) |-> md5blk(s, (i - 1) * 64)]
      \o (IF sl > 55 THEN <<tail, [ZeroTail EXCEPT ![15] = LengthWord(n)]>>
          ELSE <<[tail EXCEPT ![15] = LengthWord(n)]>>)

\* buffer[i] || 0
ByteOrZero(buffer, i) == IF i < Len(buffer) THEN buffer[i + 1] ELSE 0

\* md5blkBuf(buffer, offset)
md5blkBuf(buffer, offset) ==
  [j \in 1..16 |->
     ByteOrZero(buffer, offset + 4 * (j - 1))
     + Shl32(ByteOrZero(buffer, offset + 4 * (j - 1) + 1), 8)
     + Shl32(ByteOrZero(buffer, offset + 4 * (j - 1) + 2), 16)
     + Shl32(ByteOrZero(buffer, offset + 4 * (j - 1) + 3), 24)]

\* md5buf taking the extra block only above 56 remaining bytes
md5bufBlocks_above56(buffer) ==
  LET length == Len(buffer)
      i == 64 * ((length \div 64) + 1)
      remaining == length - i + 64
      rest == SubSeq(buffer, length - remaining + 1, length)
      tail == [j \in 1..16 |-> TailWord(rest, remaining, j - 1)]
  IN  [k \in 1..((i \div 64) - 1) |-> md5blkBuf(buffer, 64 * k - 64)]
      \o (IF remaining > 56
          THEN <<tail, [ZeroTail EXCEPT ![15] = LengthWord(length), ![16] = 0]>>
          ELSE <<[tail EXCEPT ![15] = LengthWord(length), ![16] = 0]>>)

\* the arguments md5buf hands to md5cycle, in order.  i is the loop variable
\* when the loop over the full blocks ends.
md5bufBlocks(buffer) ==
  LET length == Len(buffer)
      i == 64 * ((length \div 64) + 1)
      remaining == length - i + 64
      rest == SubSeq(buffer, length - remaining + 1, length)
      tail == [j \in 1..16 |-> TailWord(rest, remaining, j - 1)]
  IN  [k \in 1..((i \div 64) - 1) |-> md5blkBuf(buffer, 64 * k - 64)]
      \o (IF remaining > 55
          THEN <<tail, [ZeroTail EXCEPT ![15] = LengthWord(length), ![16] = 0]>>
          ELSE <<[tail EXCEPT ![15] = LengthWord(length), ![16] = 0]>>)

\* md5cycle(state, block, add32) for the blocks i.. of blocks, in order
RECURSIVE Cycles(_, _, _, _)
Cycles(words, blocks, i, fn) ==
  IF i > Len(blocks) THEN words
  ELSE Cycles(md5cycle(words, blocks[i], fn), blocks, i + 1, fn)

\* md5buf(buffer, add32): the four state words
md5buf(buffer, fn) == Cycles(initialMD5State, md5bufBlocks(buffer), 1, fn)

md5Buffer(buffer) == hex(md5buf(buffer, "add32"))

(***************************************************************************)
(* PureJSBackend.  B is this.state.                                        *)
(***************************************************************************)
NewPureJSBackend == [data |-> << >>, finished |-> FALSE]

\* update appending to the finished data
update_append(B, data) == [B EXCEPT !.data = @ \o data]

\* update replacing the accumulated data
update_replace(B, data) ==
  LET B1 == IF B.finished THEN [data |-> << >>, finished |-> FALSE] ELSE B
  IN  [B1 EXCEPT !.data = data]

\* update(data) with a string
update(B, data) ==
  LET B1 == IF B.finished THEN [data |-> << >>, finished |-> FALSE] ELSE B
  IN  [B1 EXCEPT !.data = @ \o data]

\* digest consuming the data
digest_consume(B) ==
  [after |-> [data |-> << >>, finished |-> TRUE], result |-> md5Core(B.data)]

\* digest(): the backend after the call and the string returned
digest(B) ==
  [after |-> [B EXCEPT !.finished = TRUE], result |-> md5Core(B.data)]

\* hash(data)
hash(data) == md5Core(data)

resetBackend(B) == [data |-> << >>, finished |-> FALSE]

\* the strings handed to update(): "", "a", "bc"
UpdateInputs == {<< >>, <<97>>, <<98, 99>>}
\* longest accumulated string explored
MaxData == 3
\* most consecutive digest() calls explored
MaxDigests == 2

(***************************************************************************)
(* State                                                                   *)
(***************************************************************************)
VARIABLES
  sut,            \* the object the behaviour exercises
  \* MD5Stream
  state,          \* this.state.state
  bytesProcessed, \* this.state.bytesProcessed
  bufferLength,   \* this.state.bufferLength
  buffer,         \* this.buffer (= this.state.buffer)
  ended,          \* the Transform has been ended
  streamError,    \* the error the last call produced, or "none"
  fed,            \* history: blocks handed to md5cycle since the session began
  result,         \* history: the object emitted with 'md5' in this session
  md5Events,      \* history: number of 'md5' events the instance has emitted
  msg,            \* the message the caller feeds in this session
  written,        \* bytes of it write() has accepted so far
  writes,         \* history: write() calls accepted in this session (2: two or more)
  endCalled,      \* the caller has called end() in this session
  resetAfterEnd,  \* reset() has been called on the ended instance
  lastOp,         \* the last call on the stream
  \* PureJSBackend
  pjData,         \* this.state.data
  pjFinished,     \* this.state.finished
  pjDigests,      \* history: what the digest() calls returned since the last
                  \* update() or reset()
  pjLastOp,       \* the last call on the backend
  pjError,        \* the error the last call on the backend raised, or "none"
  pjRestarted,    \* history: the last update() found this.state.finished set
  pjInputs,       \* history: how the session began ("new", "reset", or an
                  \* update() after digest()) and the strings update() was
                  \* given in a session begun by the constructor or reset()
  \* one-shot functions
  oneShot,        \* the call of md5 / md5Core and what it returned
  \* callers and collaborators of other scenarios
  snap,           \* the object getCurrentState() returned to the caller
  two,            \* two MD5Stream instances used side by side
  pipe,           \* the source, the handlers and the promise of pipeThroughMD5
  call,           \* a call of the encoder or of an adder and what it returned
  hfs,            \* the source, the listeners and the promise of hashFileStream
  fb,             \* a FallbackManager, its backends and the call in progress
  metrics,        \* a MetricsCollector and the calls made on it
  old,            \* the MD5Stream with the number[] buffer, run side by side
  sb              \* a StreamBackend, its Node stream's listeners and its promises

streamVars == <<state, bytesProcessed, bufferLength, buffer, ended, streamError,
                fed, result, md5Events, msg, written, writes, endCalled,
                resetAfterEnd, lastOp>>
pjVars == <<pjData, pjFinished, pjDigests, pjLastOp, pjError, pjRestarted, pjInputs>>
moreVars == <<hfs, fb, metrics, old, sb>>
auxVars == <<snap, two, pipe, call, moreVars>>
vars == <<sut, streamVars, pjVars, oneShot, auxVars>>

NoResult == [digest |-> "", bytesProcessed |-> -1]
NoCall == [input |-> 0, md5 |-> "", md5Core |-> "", md5Buffer |-> ""]

\* the scenarios a behaviour does not exercise stay idle
Idle == "idle"
MoreIdle == hfs = Idle /\ fb = Idle /\ metrics = Idle /\ old = Idle /\ sb = Idle

\* this.state of the stream, with the history of blocks
This == [state |-> state, bytesProcessed |-> bytesProcessed,
         bufferLength |-> bufferLength, buffer |-> buffer, fed |-> fed]

\* the stream's fields become those of S
Becomes(S) ==
  /\ state' = S.state
  /\ bytesProcessed' = S.bytesProcessed
  /\ bufferLength' = S.bufferLength
  /\ buffer' = S.buffer
  /\ fed' = S.fed

Backend == [data |-> pjData, finished |-> pjFinished]

StreamInit ==
  /\ state = NewMD5Stream.state
  /\ bytesProcessed = NewMD5Stream.bytesProcessed
  /\ bufferLength = NewMD5Stream.bufferLength
  /\ buffer = NewMD5Stream.buffer
  /\ fed = NewMD5Stream.fed
  /\ ended = FALSE
  /\ streamError = "none"
  /\ result = NoResult
  /\ md5Events = 0
  /\ written = 0
  /\ writes = 0
  /\ endCalled = FALSE
  /\ resetAfterEnd = FALSE
  /\ lastOp = "new"

BackendInit ==
  /\ pjData = NewPureJSBackend.data
  /\ pjFinished = NewPureJSBackend.finished
  /\ pjDigests = << >>
  /\ pjLastOp = "new"
  /\ pjError = "none"
  /\ pjRestarted = FALSE
  /\ pjInputs = [start |-> "new", data |-> << >>]

Init ==
  /\ sut \in {"MD5Stream", "PureJSBackend", "md5"}
  /\ msg \in IF sut = "PureJSBackend" THEN {1} ELSE 1..NumMessages
  /\ StreamInit
  /\ BackendInit
  /\ oneShot = NoCall
  /\ snap = Idle /\ two = Idle /\ pipe = Idle /\ call = Idle /\ MoreIdle

(***************************************************************************)
(* Calls on the MD5Stream                                                  *)
(***************************************************************************)
\* write(chunk) with the next n bytes of the message.  An ended Transform
\* rejects the write ("write after end") before _transform is reached.
Write(n) ==
  /\ sut = "MD5Stream"
  /\ written + n <= Len(Messages[msg])
  /\ IF ended
     THEN /\ streamError' = "write after end"
          /\ UNCHANGED <<state, bytesProcessed, bufferLength, buffer, fed, written,
                         writes>>
     ELSE /\ \E S \in {_transform(This, SubSeq(Messages[msg], written + 1, written + n))} :
                Becomes(S)
          /\ written' = written + n
          /\ writes' = Min(writes + 1, 2)
          /\ streamError' = "none"
  /\ lastOp' = "write"
  /\ UNCHANGED <<sut, ended, result, md5Events, msg, endCalled, resetAfterEnd,
                 pjVars, oneShot, auxVars>>

\* end() running _flush whether or not the stream is ended
End_flushAgain ==
  /\ sut = "MD5Stream"
  /\ \E F \in {_flush(This)} :
        /\ Becomes(F.after)
        /\ result' = F.md5
        /\ md5Events' = md5Events + 1
  /\ ended' = TRUE
  /\ endCalled' = TRUE
  /\ streamError' = "none"
  /\ lastOp' = "end"
  /\ UNCHANGED <<sut, msg, written, writes, resetAfterEnd, pjVars, oneShot, auxVars>>

\* end() without a callback: the first call runs _flush, which emits 'md5'; a
\* Transform that has ended does not run _flush again, and hands the error of
\* the repeated end() to a callback only
End ==
  /\ sut = "MD5Stream"
  /\ IF ended
     THEN UNCHANGED <<state, bytesProcessed, bufferLength, buffer, fed, result,
                      md5Events>>
     ELSE \E F \in {_flush(This)} :
             /\ Becomes(F.after)
             /\ result' = F.md5
             /\ md5Events' = md5Events + 1
  /\ ended' = TRUE
  /\ endCalled' = TRUE
  /\ streamError' = "none"
  /\ lastOp' = "end"
  /\ UNCHANGED <<sut, msg, written, writes, resetAfterEnd, pjVars, oneShot, auxVars>>

\* reset() that also reopens the ended Transform
Reset_reopen(m) ==
  /\ sut = "MD5Stream"
  /\ Becomes(reset(This))
  /\ msg' = m
  /\ written' = 0
  /\ writes' = 0
  /\ result' = NoResult
  /\ endCalled' = FALSE
  /\ resetAfterEnd' = ended
  /\ streamError' = "none"
  /\ lastOp' = "reset"
  /\ ended' = FALSE
  /\ UNCHANGED <<sut, md5Events, pjVars, oneShot, auxVars>>

\* reset(); the caller then starts on message m
Reset(m) ==
  /\ sut = "MD5Stream"
  /\ Becomes(reset(This))
  /\ msg' = m
  /\ written' = 0
  /\ writes' = 0
  /\ result' = NoResult
  /\ endCalled' = FALSE
  /\ resetAfterEnd' = ended
  /\ streamError' = "none"
  /\ lastOp' = "reset"
  /\ UNCHANGED <<sut, ended, md5Events, pjVars, oneShot, auxVars>>

(***************************************************************************)
(* Calls on the PureJSBackend                                              *)
(***************************************************************************)
Update(d) ==
  /\ sut = "PureJSBackend"
  /\ LET B == update(Backend, d)
     IN  /\ Len(B.data) <= MaxData
         /\ pjData' = B.data
         /\ pjFinished' = B.finished
  /\ pjDigests' = << >>
  /\ pjLastOp' = "update"
  /\ pjError' = "none"
  /\ pjRestarted' = pjFinished
  /\ pjInputs' = IF pjFinished \/ pjInputs.start = "update after digest"
                 THEN [start |-> "update after digest", data |-> << >>]
                 ELSE [pjInputs EXCEPT !.data = @ \o d]
  /\ UNCHANGED <<sut, streamVars, oneShot, auxVars>>

Digest ==
  /\ sut = "PureJSBackend"
  /\ Len(pjDigests) < MaxDigests
  /\ \E D \in {digest(Backend)} :
         /\ pjData' = D.after.data
         /\ pjFinished' = D.after.finished
         /\ pjDigests' = Append(pjDigests, D.result)
  /\ pjLastOp' = "digest"
  /\ pjError' = "none"
  /\ UNCHANGED <<sut, streamVars, pjRestarted, pjInputs, oneShot, auxVars>>

ResetBackend ==
  /\ sut = "PureJSBackend"
  /\ LET B == resetBackend(Backend)
     IN  /\ pjData' = B.data
         /\ pjFinished' = B.finished
  /\ pjDigests' = << >>
  /\ pjLastOp' = "reset"
  /\ pjError' = "none"
  /\ pjRestarted' = FALSE
  /\ pjInputs' = [start |-> "reset", data |-> << >>]
  /\ UNCHANGED <<sut, streamVars, oneShot, auxVars>>

(***************************************************************************)
(* A call of the one-shot functions on the message                         *)
(***************************************************************************)
OneShot ==
  /\ sut = "md5"
  /\ oneShot = NoCall
  /\ oneShot' = [input |-> msg, md5 |-> md5(Messages[msg]),
                 md5Core |-> md5Core(Messages[msg]),
                 md5Buffer |-> md5Buffer(Messages[msg])]
  /\ UNCHANGED <<sut, streamVars, pjVars, auxVars>>

Next ==
  \/ \E n \in ChunkLens : Write(n)
  \/ End
  \/ \E m \in 1..NumMessages : Reset(m)
  \/ \E d \in UpdateInputs : Update(d)
  \/ Digest
  \/ ResetBackend
  \/ OneShot

Spec == Init /\ [][Next]_vars

(***************************************************************************)
(* A caller that takes snapshots with getCurrentState() and overwrites     *)
(* what it was given, while the message is written and finalized.          *)
(***************************************************************************)
\* the 80 digits and "abc"
SnapshotMessages == {7, 3}
SnapshotChunks == {0, 16, 64}

NoSnapshot ==
  [held |-> FALSE, value |-> getCurrentState(NewMD5Stream), array |-> "none"]

GetCurrentState ==
  /\ sut = "MD5Stream"
  /\ snap' = [held |-> TRUE, value |-> getCurrentState(This),
              array |-> getCurrentStateArray]
  /\ lastOp' = "getCurrentState"
  /\ UNCHANGED <<sut, state, bytesProcessed, bufferLength, buffer, ended,
                 streamError, fed, result, md5Events, msg, written, writes,
                 endCalled, resetAfterEnd, pjVars, oneShot, two, pipe, call, moreVars>>

\* the caller's snapshot.state[i] = 0; snapshot.bytesProcessed = 999.  The
\* write lands in the session's array when the snapshot holds that array.
OverwriteSnapshot(i) ==
  /\ sut = "MD5Stream"
  /\ snap.held
  /\ snap.value.bytesProcessed # 999
  /\ snap' = [snap EXCEPT !.value = [state |-> [@.state EXCEPT ![i] = 0],
                                     bytesProcessed |-> 999]]
  /\ state' = IF snap.array = "this.state.state"
              THEN [state EXCEPT ![i] = 0] ELSE state
  /\ UNCHANGED <<sut, bytesProcessed, bufferLength, buffer, ended, streamError,
                 fed, result, md5Events, msg, written, writes, endCalled,
                 resetAfterEnd, lastOp, pjVars, oneShot, two, pipe, call, moreVars>>

InitSnapshot ==
  /\ sut = "MD5Stream"
  /\ msg \in SnapshotMessages
  /\ StreamInit
  /\ BackendInit
  /\ oneShot = NoCall
  /\ snap = NoSnapshot
  /\ two = Idle /\ pipe = Idle /\ call = Idle /\ MoreIdle

NextSnapshot ==
  \/ \E n \in SnapshotChunks : Write(n)
  \/ End
  \/ GetCurrentState
  \/ \E i \in 1..4 : OverwriteSnapshot(i)

SpecSnapshot == InitSnapshot /\ [][NextSnapshot]_vars

(***************************************************************************)
(* A session that is written, read with both getters, finalized and reset. *)
(***************************************************************************)
\* getBytesProcessed(): returns a number and assigns nothing
GetBytesProcessed ==
  /\ sut = "MD5Stream"
  /\ getBytesProcessed(This) >= 0
  /\ lastOp' = "getBytesProcessed"
  /\ UNCHANGED <<sut, state, bytesProcessed, bufferLength, buffer, ended,
                 streamError, fed, result, md5Events, msg, written, writes,
                 endCalled, resetAfterEnd, pjVars, oneShot, auxVars>>

NextWords ==
  \/ \E n \in SnapshotChunks : Write(n)
  \/ End
  \/ \E m \in SnapshotMessages : Reset(m)
  \/ GetCurrentState
  \/ GetBytesProcessed

SpecWords == InitSnapshot /\ [][NextWords]_vars

(***************************************************************************)
(* Calls of the encoder and of the adders on numbers.  A JavaScript number *)
(* n with -2^31 <= n < 2^32 is the record of its halves, n = hi * 2^16 + lo *)
(* with 0 <= lo < 2^16: the signed and the unsigned spelling of a 32-bit   *)
(* word are two different numbers.                                         *)
(***************************************************************************)
Num(h, l) == [hi |-> h, lo |-> l]

\* the 32-bit integer the operators >>, & and | make of their operand
ToInt32(n) == (((n.hi + 32768) % 65536) - 32768) * 65536 + n.lo

\* an array element: a number, or the string hex() of the in-place variant
\* has put in its place
NumVal(n) == [type |-> "number", num |-> n, str |-> ""]
StrVal(t) == [type |-> "string", num |-> Num(0, 0), str |-> t]

\* the words of an array of numbers, as rhex reads them
WordsOf(x) == [i \in 1..Len(x) |-> ToInt32(x[i].num)]

\* hex of src/hex.ts lines 10-15: the string returned, and the argument array
\* after the call (result[i] = rhex(x[i]) writes to a new array)
hexReturn(x) == hex(WordsOf(x))
hexArgument(x) == x

\* the variant of lines 21-25: x[i] = rhex(x[i]); return x.join("")
hexInPlaceArgument(x) == [i \in 1..Len(x) |-> StrVal(rhex(ToInt32(x[i].num)))]
RECURSIVE JoinFrom(_, _)
JoinFrom(x, i) == IF i > Len(x) THEN "" ELSE x[i].str \o JoinFrom(x, i + 1)
hexInPlaceReturn(x) == JoinFrom(hexInPlaceArgument(x), 1)

HighHalves == {-32768, -1, 0, 1, 291, 4660, 26437, 32767, 32768, 39612, 57005, 65535}
LowHalves == {0, 1, 255, 256, 8961, 17767, 22136, 48879, 57072, 65535}
XNums == {Num(h, l) : h \in HighHalves, l \in LowHalves}
YNums == {Num(h, l) : h \in {-32768, -1, 0, 1, 32767, 65535}, l \in {0, 1, 48879, 65535}}

\* [1732584193, -271733879, -1732584194, 271733878]
IVNumbers == <<NumVal(Num(26437, 8961)), NumVal(Num(-4147, 43913)),
               NumVal(Num(-26438, 56574)), NumVal(Num(4146, 21622))>>
\* [], the initial state, [0xdeadbeef, 0xcafebabe, 0xfaceb00c], [4294967295]
WordLists == {<< >>, IVNumbers,
              <<NumVal(Num(57005, 48879)), NumVal(Num(51966, 47806)),
                NumVal(Num(64206, 45068))>>,
              <<NumVal(Num(65535, 65535))>>}

CallInputs ==
  {[kind |-> "numbers", x |-> a, y |-> b, words |-> <<NumVal(a), NumVal(b)>>, m |-> 1] :
      a \in XNums, b \in YNums}
  \cup {[kind |-> "list", x |-> Num(0, 0), y |-> Num(0, 0), words |-> w, m |-> 1] :
      w \in WordLists}
  \cup {[kind |-> "message", x |-> Num(0, 0), y |-> Num(0, 0), words |-> << >>, m |-> k] :
      k \in 1..NumMessages}

\* what a call leaves: the string or the number returned, and the argument
\* array after the call
Returned(op, input, t, n, arg) ==
  [op |-> op, in |-> input, str |-> t, num |-> n, arg |-> arg]

InitCalls ==
  /\ sut = "calls"
  /\ msg = 1
  /\ StreamInit
  /\ BackendInit
  /\ oneShot = NoCall
  /\ snap = Idle /\ two = Idle /\ pipe = Idle /\ MoreIdle
  /\ call \in {Returned("none", i, "", 0, i.words) : i \in CallInputs}

CallFrame == UNCHANGED <<sut, streamVars, pjVars, oneShot, snap, two, pipe, moreVars>>

\* rhex(x)
RhexCall ==
  /\ call.op = "none" /\ call.in.kind = "numbers"
  /\ call' = Returned("rhex", call.in, rhex(ToInt32(call.in.x)), 0, call.in.words)
  /\ CallFrame

\* hex(words)
HexCall ==
  /\ call.op = "none" /\ call.in.kind \in {"numbers", "list"}
  /\ call' = Returned("hex", call.in, hexReturn(call.in.words), 0,
                      hexArgument(call.in.words))
  /\ CallFrame

\* hex(words) of the in-place variant
HexInPlaceCall ==
  /\ call.op = "none" /\ call.in.kind \in {"numbers", "list"}
  /\ call' = Returned("hexInPlace", call.in, hexInPlaceReturn(call.in.words), 0,
                      hexInPlaceArgument(call.in.words))
  /\ CallFrame

\* add32(x, y) and the fallback adder of md5() on (x, y)
Add32Call ==
  /\ call.op = "none" /\ call.in.kind = "numbers"
  /\ call' = Returned("add32", call.in, "",
                      add32(ToInt32(call.in.x), ToInt32(call.in.y)), call.in.words)
  /\ CallFrame

Add32SplitCall ==
  /\ call.op = "none" /\ call.in.kind = "numbers"
  /\ call' = Returned("add32Split", call.in, "",
                      add32Split(ToInt32(call.in.x), ToInt32(call.in.y)), call.in.words)
  /\ CallFrame

\* hex(md51(message, fn)) with either adder
Md51Call(fn) ==
  /\ call.op = "none" /\ call.in.kind = "message"
  /\ call' = Returned("md51(" \o fn \o ")", call.in,
                      hex(md51(Messages[call.in.m], fn)), 0, call.in.words)
  /\ CallFrame

NextCalls ==
  \/ RhexCall
  \/ HexCall
  \/ HexInPlaceCall
  \/ Add32Call
  \/ Add32SplitCall
  \/ \E fn \in {"add32", "add32Split"} : Md51Call(fn)

SpecCalls == InitCalls /\ [][NextCalls]_vars

(***************************************************************************)
(* Two MD5Stream instances used in turn.  The Uint8Array buffers live in a *)
(* heap and an instance holds the id of its buffer; the other fields of    *)
(* this.state are values of the instance.                                  *)
(***************************************************************************)
Instances == {1, 2}

\* the message instance i is fed, and the lengths of the chunks
TwoMessage(i) == IF i = 1 THEN 7 ELSE 6
TwoChunks == {0, 30, 32, 50}

\* one buffer for all instances
AllocBuffer_shared(i) == 1

\* private buffer: Uint8Array = new Uint8Array(this.bufferCapacity): the
\* buffer instance i allocates is its own
AllocBuffer(i) == i

BufferIds == {AllocBuffer(i) : i \in Instances}

NewInstance(i) ==
  [state |-> NewMD5Stream.state, bytesProcessed |-> NewMD5Stream.bytesProcessed,
   bufferLength |-> NewMD5Stream.bufferLength, buffer |-> AllocBuffer(i),
   fed |-> NewMD5Stream.fed, ended |-> FALSE, result |-> NoResult, written |-> 0]

\* this.state of instance i
Load(T, i) ==
  [state |-> T.inst[i].state, bytesProcessed |-> T.inst[i].bytesProcessed,
   bufferLength |-> T.inst[i].bufferLength, buffer |-> T.heap[T.inst[i].buffer],
   fed |-> T.inst[i].fed]

\* instance i after an operation that left this.state as S
Store(T, i, S, e, r, w) ==
  [T EXCEPT !.heap[T.inst[i].buffer] = S.buffer,
            !.inst[i] = [state |-> S.state, bytesProcessed |-> S.bytesProcessed,
                         bufferLength |-> S.bufferLength, buffer |-> @.buffer,
                         fed |-> S.fed, ended |-> e, result |-> r, written |-> w]]

\* a session that has accepted bytes and is not ended
MidSession(T, i) == T.inst[i].written > 0 /\ ~T.inst[i].ended

\* the operation is one of instance i; it comes between operations of an
\* open session of another instance
Acts(T, i) ==
  [T EXCEPT !.actor = i,
            !.interleaved = @ \/ (T.actor # i /\ T.actor # 0 /\ MidSession(T, T.actor))]

InitTwo ==
  /\ sut = "two MD5Streams"
  /\ msg = 1
  /\ StreamInit
  /\ BackendInit
  /\ oneShot = NoCall
  /\ snap = Idle /\ pipe = Idle /\ call = Idle /\ MoreIdle
  /\ two = [heap |-> [b \in BufferIds |-> EmptyBuffer],
            inst |-> [i \in Instances |-> NewInstance(i)],
            actor |-> 0,
            interleaved |-> FALSE,
            seen |-> getCurrentState(NewMD5Stream)]

TwoFrame == UNCHANGED <<sut, streamVars, pjVars, oneShot, snap, pipe, call, moreVars>>

\* instance i: write(chunk) with the next n bytes of its message
TwoWrite(i, n) ==
  /\ sut = "two MD5Streams"
  /\ two.inst[i].written + n <= Len(Messages[TwoMessage(i)])
  /\ LET I == two.inst[i]
         chunk == SubSeq(Messages[TwoMessage(i)], I.written + 1, I.written + n)
     IN  two' = IF I.ended THEN Acts(two, i)
                ELSE Store(Acts(two, i), i, _transform(Load(two, i), chunk),
                           I.ended, I.result, I.written + n)
  /\ TwoFrame

\* instance i: end()
TwoEnd(i) ==
  /\ sut = "two MD5Streams"
  /\ LET I == two.inst[i]
         F == _flush(Load(two, i))
     IN  two' = IF I.ended THEN Acts(two, i)
                ELSE Store(Acts(two, i), i, F.after, TRUE, F.md5, I.written)
  /\ TwoFrame

\* instance i: reset()
TwoReset(i) ==
  /\ sut = "two MD5Streams"
  /\ two' = Store(Acts(two, i), i, reset(Load(two, i)), two.inst[i].ended, NoResult, 0)
  /\ TwoFrame

\* instance i: getCurrentState()
TwoGetCurrentState(i) ==
  /\ sut = "two MD5Streams"
  /\ two' = [Acts(two, i) EXCEPT !.seen = getCurrentState(Load(two, i))]
  /\ TwoFrame

NextTwo ==
  \E i \in Instances :
    \/ \E n \in TwoChunks : TwoWrite(i, n)
    \/ TwoEnd(i)
    \/ TwoReset(i)
    \/ TwoGetCurrentState(i)

SpecTwo == InitTwo /\ [][NextTwo]_vars

(***************************************************************************)
(* pipeThroughMD5 / fromStream: a Readable source piped into the stream.   *)
(* source.pipe(dest) writes each chunk of the source to dest and calls     *)
(* dest.end() when the source emits 'end'; it returns dest, so the three   *)
(* listeners of pipeThroughMD5 are listeners of the MD5Stream.  An 'error' *)
(* of the source is not forwarded to dest and does not end it.             *)
(***************************************************************************)
PipeMessages == {1, 3, 7}
PipeChunks == {1, 3, 16, 64}
SourceErrors == {"ENOENT", "EIO"}

\* results[0] of an empty results array
Undefined == [digest |-> "undefined", bytesProcessed |-> -1]

Pending == [status |-> "pending", value |-> NoResult, error |-> "none"]

\* resolve and reject of the promise: only the first call settles it
resolve(P, v) ==
  IF P.promise.status = "pending"
  THEN [P EXCEPT !.promise = [status |-> "resolved", value |-> v, error |-> "none"]]
  ELSE P
reject(P, e) ==
  IF P.promise.status = "pending"
  THEN [P EXCEPT !.promise = [status |-> "rejected", value |-> NoResult, error |-> e]]
  ELSE P

\* the listeners pipeThroughMD5 attaches to the MD5Stream
OnMD5Stream(P, event, r) ==
  IF event = "md5" THEN [P EXCEPT !.results = Append(@, r)]
  ELSE IF event = "error" THEN reject(P, r.digest)
  ELSE IF event = "finish"
  THEN resolve(P, IF Len(P.results) > 0 THEN P.results[1] ELSE Undefined)
  ELSE P

RECURSIVE Emit(_, _, _, _)
Emit(P, events, i, r) ==
  IF i > Len(events) THEN P
  ELSE Emit(OnMD5Stream(P, events[i], r), events, i + 1, r)

\* 'finish' emitted before _flush has emitted 'md5'
FlushEvents_finishFirst == <<"finish", "md5">>

\* what an MD5Stream emits when it is ended: _flush emits 'md5' and then
\* calls callback(), after which the Transform emits 'finish'
FlushEvents == <<"md5", "finish">>

InitPipe ==
  /\ sut = "pipeThroughMD5"
  /\ msg \in PipeMessages
  /\ StreamInit
  /\ BackendInit
  /\ oneShot = NoCall
  /\ snap = Idle /\ two = Idle /\ call = Idle /\ MoreIdle
  /\ pipe = [source |-> "flowing", error |-> "none", results |-> << >>,
             promise |-> Pending]

PipeFrame == UNCHANGED <<sut, msg, pjVars, oneShot, snap, two, call, moreVars>>

\* the source emits 'data' with its next n bytes: dest.write(chunk)
SourceData(n) ==
  /\ sut = "pipeThroughMD5"
  /\ pipe.source = "flowing"
  /\ written + n <= Len(Messages[msg])
  /\ Becomes(_transform(This, SubSeq(Messages[msg], written + 1, written + n)))
  /\ written' = written + n
  /\ writes' = Min(writes + 1, 2)
  /\ lastOp' = "write"
  /\ UNCHANGED <<ended, streamError, result, md5Events, endCalled, resetAfterEnd, pipe>>
  /\ PipeFrame

\* the source has delivered all its bytes and emits 'end': dest.end()
SourceEnd ==
  /\ sut = "pipeThroughMD5"
  /\ pipe.source = "flowing"
  /\ written = Len(Messages[msg])
  /\ \E F \in {_flush(This)} :
        /\ Becomes(F.after)
        /\ result' = F.md5
        /\ pipe' = Emit([pipe EXCEPT !.source = "ended"], FlushEvents, 1, F.md5)
  /\ md5Events' = md5Events + 1
  /\ ended' = TRUE
  /\ endCalled' = TRUE
  /\ lastOp' = "end"
  /\ UNCHANGED <<streamError, written, writes, resetAfterEnd>>
  /\ PipeFrame

\* the source emits 'error' (and will emit neither 'data' nor 'end'): no
\* listener of pipeThroughMD5 is on the source, and dest is left open
SourceError(e) ==
  /\ sut = "pipeThroughMD5"
  /\ pipe.source = "flowing"
  /\ pipe' = [pipe EXCEPT !.source = "errored", !.error = e]
  /\ UNCHANGED streamVars
  /\ UNCHANGED <<sut, pjVars, oneShot, snap, two, call, moreVars>>

NextPipe ==
  \/ \E n \in PipeChunks : SourceData(n)
  \/ SourceEnd
  \/ \E e \in SourceErrors : SourceError(e)

SpecPipe == InitPipe /\ [][NextPipe]_vars

(***************************************************************************)
(* hashFileStream(readStream, options), called directly or by hashFile.    *)
(* The MD5Stream it creates is the stream of the variables state, buffer,  *)
(* ...; hfs holds the argument, the source, what onProgress was told and   *)
(* the promise returned.                                                   *)
(***************************************************************************)
HashFileMessages == {1, 3, 7}
HashFileChunks == {3, 16, 64}
HashFileArguments == {"Readable", "null"}

InvalidStream == "Invalid readable stream: stream must have event listener support"

\* a source 'error' left without effect on the MD5Stream
SourceErrorListener_none == "none"

\* readStream.on('error', (error) => { md5Stream.destroy(error); })
SourceErrorListener == "md5Stream.destroy(error)"

\* destroy(error) on the MD5Stream emits 'error' with that error, for which
\* the listener is reject
OnSourceError(P, e) ==
  IF SourceErrorListener = "md5Stream.destroy(error)" THEN reject(P, e) ELSE P

\* the value onProgress is called with for a chunk of n bytes, after the
\* listener has done bytesProcessed += chunk.length
Progress_chunkLength(P, n) == n
Progress(P, n) == P.bytesRead + n

InitHashFile ==
  /\ sut = "hashFileStream"
  /\ msg \in HashFileMessages
  /\ StreamInit
  /\ BackendInit
  /\ oneShot = NoCall
  /\ snap = Idle /\ two = Idle /\ pipe = Idle /\ call = Idle
  /\ fb = Idle /\ metrics = Idle /\ old = Idle /\ sb = Idle
  /\ \E via \in {"hashFile", "hashFileStream"}, a \in HashFileArguments, op \in BOOLEAN :
        /\ via = "hashFile" => a = "Readable"
        /\ hfs = [via |-> via, argument |-> a, onProgress |-> op, source |-> "new",
                  error |-> "none", bytesRead |-> 0, sizes |-> << >>,
                  progress |-> << >>, promise |-> Pending, settled |-> 0]

HashFileFrame == UNCHANGED <<sut, msg, pjVars, oneShot, snap, two, pipe, call, fb,
                             metrics, old, sb>>

\* the promise of P' is settled where that of P was not
Settles(P, Q) ==
  [Q EXCEPT !.settled = IF P.promise.status = "pending" /\ Q.promise.status # "pending"
                        THEN @ + 1 ELSE @]

\* the call: validation, listeners attached, source piped
HashFileStream ==
  /\ sut = "hashFileStream"
  /\ hfs.source = "new"
  /\ hfs' = IF hfs.argument = "null"
            THEN Settles(hfs, reject([hfs EXCEPT !.source = "none"], InvalidStream))
            ELSE [hfs EXCEPT !.source = "flowing"]
  /\ UNCHANGED streamVars
  /\ UNCHANGED <<sut, pjVars, oneShot, snap, two, pipe, call, fb, metrics, old, sb>>

\* the source emits 'data' with its next n bytes: the progress listener,
\* then the write of pipe
HashFileData(n) ==
  /\ sut = "hashFileStream"
  /\ hfs.source = "flowing"
  /\ written + n <= Len(Messages[msg])
  /\ hfs' = [hfs EXCEPT
               !.bytesRead = IF hfs.onProgress THEN @ + n ELSE @,
               !.sizes = Append(@, n),
               !.progress = IF hfs.onProgress THEN Append(@, Progress(hfs, n)) ELSE @]
  /\ Becomes(_transform(This, SubSeq(Messages[msg], written + 1, written + n)))
  /\ written' = written + n
  /\ writes' = Min(writes + 1, 2)
  /\ lastOp' = "write"
  /\ UNCHANGED <<ended, streamError, result, md5Events, endCalled, resetAfterEnd>>
  /\ HashFileFrame

\* the source emits 'end': md5Stream.end() of the listener runs _flush, 'md5'
\* resolves the promise; the end() of pipe then finds the stream ended
HashFileEnd ==
  /\ sut = "hashFileStream"
  /\ hfs.source = "flowing"
  /\ written = Len(Messages[msg])
  /\ \E F \in {_flush(This)} :
        /\ Becomes(F.after)
        /\ result' = F.md5
        /\ hfs' = Settles(hfs, resolve([hfs EXCEPT !.source = "ended"], F.md5))
  /\ md5Events' = md5Events + 1
  /\ ended' = TRUE
  /\ endCalled' = TRUE
  /\ lastOp' = "end"
  /\ UNCHANGED <<streamError, written, writes, resetAfterEnd>>
  /\ HashFileFrame

\* the source emits 'error', while flowing or after its 'end'
HashFileError(e) ==
  /\ sut = "hashFileStream"
  /\ hfs.source \in {"flowing", "ended"}
  /\ hfs' = Settles(hfs, OnSourceError([hfs EXCEPT !.source = "errored", !.error = e], e))
  /\ UNCHANGED streamVars
  /\ UNCHANGED <<sut, pjVars, oneShot, snap, two, pipe, call, fb, metrics, old, sb>>

NextHashFile ==
  \/ HashFileStream
  \/ \E n \in HashFileChunks : HashFileData(n)
  \/ HashFileEnd
  \/ \E e \in SourceErrors : HashFileError(e)

SpecHashFile == InitHashFile /\ [][NextHashFile]_vars

(***************************************************************************)
(* The MD5Stream whose buffer is a number[] that grows with the pending    *)
(* bytes (the second class of md5-stream.ts), run next to the one with the *)
(* pre-allocated Uint8Array: every call is made on both.  _flush,          *)
(* getCurrentState and getBytesProcessed have the same text in both.       *)
(***************************************************************************)
\* _transform of the number[] version using only the new chunk, the pending
\* bytes lost
_transformArray_dropPending(S, chunk) ==
  LET dataLength == Len(chunk)
      joined == IF dataLength > 0 THEN chunk ELSE S.buffer
      fullBlocks == Len(joined) \div 64
      S2 == ProcessFullBlocks(S, joined, 0, fullBlocks)
      remaining == Len(joined) % 64
  IN  [S2 EXCEPT !.buffer = SubSeq(joined, fullBlocks * 64 + 1, Len(joined)),
                 !.bufferLength = remaining]

\* _transform of the number[] version: the pending bytes and the chunk are
\* joined, the full blocks compressed, the rest kept as the new buffer
_transformArray(S, chunk) ==
  LET dataLength == Len(chunk)
      joined == IF S.bufferLength > 0 /\ dataLength > 0
                THEN SubSeq(S.buffer, 1, S.bufferLength) \o chunk
                ELSE IF dataLength > 0 THEN chunk ELSE S.buffer
      fullBlocks == Len(joined) \div 64
      S2 == ProcessFullBlocks(S, joined, 0, fullBlocks)
      remaining == Len(joined) % 64
  IN  [S2 EXCEPT !.buffer = SubSeq(joined, fullBlocks * 64 + 1, Len(joined)),
                 !.bufferLength = remaining]

resetArray(S) ==
  [state |-> initialMD5State, bytesProcessed |-> 0, bufferLength |-> 0,
   buffer |-> << >>, fed |-> << >>]

NewMD5StreamArray ==
  [state |-> initialMD5State, bytesProcessed |-> 0, bufferLength |-> 0,
   buffer |-> << >>, fed |-> << >>]

BothMessages == {6, 8}
BothChunks == {0, 3, 61, 64, 66}

\* what a caller has seen of a stream: the last getCurrentState() and
\* getBytesProcessed(), the result emitted, the error of the last call
Seen(S, r, e) ==
  [current |-> getCurrentState(S), bytes |-> getBytesProcessed(S), result |-> r,
   error |-> e]

InitBoth ==
  /\ sut = "both MD5Streams"
  /\ msg \in BothMessages
  /\ StreamInit
  /\ BackendInit
  /\ oneShot = NoCall
  /\ snap = Idle /\ two = Idle /\ pipe = Idle /\ call = Idle
  /\ hfs = Idle /\ fb = Idle /\ metrics = Idle /\ sb = Idle
  /\ old = [this |-> NewMD5StreamArray, result |-> NoResult, error |-> "none",
            seen |-> Seen(NewMD5StreamArray, NoResult, "none"),
            seenNew |-> Seen(NewMD5Stream, NoResult, "none")]

BothFrame == UNCHANGED <<sut, msg, md5Events, resetAfterEnd, pjVars, oneShot, snap, two,
                         pipe, call, hfs, fb, metrics, sb>>

\* write(chunk) on both streams, then getCurrentState() on both
BothWrite(n) ==
  /\ sut = "both MD5Streams"
  /\ written + n <= Len(Messages[msg])
  /\ LET chunk == SubSeq(Messages[msg], written + 1, written + n)
         S == IF ended THEN This ELSE _transform(This, chunk)
         A == IF ended THEN old.this ELSE _transformArray(old.this, chunk)
         e == IF ended THEN "write after end" ELSE "none"
     IN  /\ Becomes(S)
         /\ streamError' = e
         /\ old' = [old EXCEPT !.this = A, !.error = e,
                               !.seen = Seen(A, old.result, e),
                               !.seenNew = Seen(S, result, e)]
  /\ written' = IF ended THEN written ELSE written + n
  /\ writes' = IF ended THEN writes ELSE Min(writes + 1, 2)
  /\ lastOp' = "write"
  /\ UNCHANGED <<ended, result, endCalled>>
  /\ BothFrame

\* end() on both streams
BothEnd ==
  /\ sut = "both MD5Streams"
  /\ LET F == _flush(This)
         G == _flush(old.this)
     IN  IF ended
         THEN /\ UNCHANGED <<state, bytesProcessed, bufferLength, buffer, fed, result>>
              /\ old' = [old EXCEPT !.error = "none",
                                    !.seen = Seen(old.this, old.result, "none"),
                                    !.seenNew = Seen(This, result, "none")]
         ELSE /\ Becomes(F.after)
              /\ result' = F.md5
              /\ old' = [old EXCEPT !.this = G.after, !.result = G.md5, !.error = "none",
                                    !.seen = Seen(G.after, G.md5, "none"),
                                    !.seenNew = Seen(F.after, F.md5, "none")]
  /\ ended' = TRUE
  /\ endCalled' = TRUE
  /\ streamError' = "none"
  /\ lastOp' = "end"
  /\ UNCHANGED <<written, writes>>
  /\ BothFrame

\* reset() on both streams
BothReset ==
  /\ sut = "both MD5Streams"
  /\ Becomes(reset(This))
  /\ old' = [old EXCEPT !.this = resetArray(old.this), !.result = NoResult,
                        !.error = "none",
                        !.seen = Seen(resetArray(old.this), NoResult, "none"),
                        !.seenNew = Seen(reset(This), NoResult, "none")]
  /\ result' = NoResult
  /\ written' = 0
  /\ writes' = 0
  /\ endCalled' = FALSE
  /\ streamError' = "none"
  /\ lastOp' = "reset"
  /\ UNCHANGED ended
  /\ BothFrame

NextBoth ==
  \/ \E n \in BothChunks : BothWrite(n)
  \/ BothEnd
  \/ BothReset

SpecBoth == InitBoth /\ [][NextBoth]_vars

(***************************************************************************)
(* FallbackManager and robustHash (utils/detect.ts).  The environment is   *)
(* the set of backends whose isAvailable() is true; whether the operation  *)
(* handed to execute throws on a backend is decided at each attempt.       *)
(***************************************************************************)
DefaultOrder == <<"nodecrypto", "webcrypto", "ie11", "purejs">>

\* the fallbackOrder arguments of the constructor
FallbackOrders ==
  {DefaultOrder, <<"nodecrypto", "purejs">>, <<"purejs", "webcrypto">>, <<"purejs">>,
   << >>, <<"purejs", "nodecrypto", "purejs">>, <<"legacy", "purejs">>}

Environments == SUBSET {"nodecrypto", "webcrypto", "ie11"}

KnownNames == {"nodecrypto", "webcrypto", "ie11", "purejs"}

\* X.isAvailable() of the class of backend name in environment env
isAvailable(name, env) == name = "purejs" \/ name \in env

\* createBackendByName(name): the class instantiated; no constructor throws
createBackendByName(name) ==
  IF name \in {"nodecrypto", "webcrypto", "ie11"} THEN name ELSE "purejs"

\* backend.hash('hello') where it does not throw
HelloDigest == hex(md51(Hello, "add32"))

NoFallbackResult == [success |-> FALSE, backend |-> "none", data |-> "none"]

\* the loop of execute going on two entries further
NextEntry_skip(i) == i + 2

\* for (const backendName of this.fallbackOrder)
NextEntry(i) == i + 1

\* robustHash handing on result.data whether or not execute succeeded
robustHashOutcome_dataAlways(res, message) ==
  [returned |-> res.data, thrown |-> ""]

\* the end of robustHash: res.data, or the Error thrown
robustHashOutcome(res, message) ==
  IF res.success
  THEN [returned |-> res.data, thrown |-> ""]
  ELSE [returned |-> "", thrown |-> "MD5 hash failed after all attempts: " \o message]

\* result.errors.map((e) => `${e.backend}: ${e.error.message}`).join(", ")
RECURSIVE errorMessage(_, _)
errorMessage(errors, i) ==
  IF i > Len(errors) THEN ""
  ELSE (IF i > 1 THEN ", " ELSE "") \o errors[i].backend \o ": " \o errors[i].error
       \o errorMessage(errors, i + 1)

\* [...BACKEND_PRIORITY]
BACKEND_PRIORITY ==
  <<[name |-> "nodecrypto", priority |-> 1], [name |-> "webcrypto", priority |-> 2],
    [name |-> "ie11", priority |-> 3], [name |-> "purejs", priority |-> 4]>>

\* list.sort((a, b) => a.priority - b.priority): a stable insertion of
\* entry e into the sorted list
RECURSIVE InsertByPriority(_, _)
InsertByPriority(sorted, e) ==
  IF sorted = << >> THEN <<e>>
  ELSE IF e.priority < Head(sorted).priority THEN <<e>> \o sorted
  ELSE <<Head(sorted)>> \o InsertByPriority(Tail(sorted), e)

RECURSIVE SortByPriority(_)
SortByPriority(list) ==
  IF list = << >> THEN << >>
  ELSE InsertByPriority(SortByPriority(SubSeq(list, 1, Len(list) - 1)), list[Len(list)])

\* availableBackends.includes(name)
Includes(list, name) == \E j \in 1..Len(list) : list[j] = name

\* the loop of getBestAvailableBackend from entry i of the sorted list on
RECURSIVE FirstIncluded(_, _, _)
FirstIncluded(sortedPriority, availableBackends, i) ==
  IF i > Len(sortedPriority) THEN "purejs"
  ELSE IF Includes(availableBackends, sortedPriority[i].name)
  THEN sortedPriority[i].name
  ELSE FirstIncluded(sortedPriority, availableBackends, i + 1)

\* getBestAvailableBackend returning the first member of the list it is given
getBestAvailableBackend_firstListed(availableBackends) ==
  IF availableBackends = << >> THEN "purejs" ELSE availableBackends[1]

getBestAvailableBackend(availableBackends) ==
  FirstIncluded(SortByPriority(BACKEND_PRIORITY), availableBackends, 1)

\* the loop of getAllAvailableBackends over backends from entry i on
RECURSIVE AvailableAmong(_, _, _)
AvailableAmong(backends, env, i) ==
  IF i > Len(backends) THEN << >>
  ELSE (IF backends[i] \in KnownNames /\ isAvailable(backends[i], env)
        THEN <<backends[i]>> ELSE << >>)
       \o AvailableAmong(backends, env, i + 1)

getAllAvailableBackends(env) ==
  AvailableAmong(<<"webcrypto", "nodecrypto", "ie11", "purejs">>, env, 1)

\* the forceBackend options of robustHash
ForceNames == {"nodecrypto", "webcrypto", "ie11", "purejs", "legacy"}

FallbackCalls == {"execute", "robustHash", "getAvailableBackends", "getBestBackend",
                  "robustHash(forceBackend)", "robustHash(fallback: false)"}

InitFallback ==
  /\ sut = "FallbackManager"
  /\ msg = 1
  /\ StreamInit
  /\ BackendInit
  /\ oneShot = NoCall
  /\ snap = Idle /\ two = Idle /\ pipe = Idle /\ call = Idle
  /\ hfs = Idle /\ metrics = Idle /\ old = Idle /\ sb = Idle
  /\ \E o \in FallbackOrders, env \in Environments, c \in FallbackCalls,
        n \in ForceNames \cup {""} :
        /\ c \in {"robustHash", "robustHash(forceBackend)",
                  "robustHash(fallback: false)"} => o = DefaultOrder
        /\ c = "robustHash(forceBackend)" <=> n # ""
        /\ fb = [order |-> o, env |-> env, op |-> c, force |-> n,
                 phase |-> "loop", i |-> 1,
                 errors |-> << >>, log |-> << >>, listed |-> << >>,
                 result |-> NoFallbackResult, returned |-> "", thrown |-> ""]

FallbackFrame == UNCHANGED <<sut, streamVars, pjVars, oneShot, snap, two, pipe, call, hfs,
                             metrics, old, sb>>

\* one pass of the loop of execute on entry i: the backend is created and
\* the operation awaited; it returns (outcome "ok") or throws
Attempt(outcome) ==
  /\ sut = "FallbackManager"
  /\ fb.op \in {"execute", "robustHash"}
  /\ fb.phase = "loop"
  /\ fb.i <= Len(fb.order)
  /\ LET backendName == fb.order[fb.i]
         tried == [fb EXCEPT !.log = Append(@, [backend |-> backendName,
                                               class |-> createBackendByName(backendName),
                                               outcome |-> outcome])]
         errors == Append(fb.errors, [backend |-> backendName,
                                      error |-> backendName \o " failed"])
     IN  fb' = IF outcome = "ok"
               THEN [tried EXCEPT !.phase = "executed",
                                  !.result = [success |-> TRUE, backend |-> backendName,
                                              data |-> HelloDigest]]
               ELSE IF backendName = fb.order[Len(fb.order)]
               THEN [tried EXCEPT !.phase = "executed", !.errors = errors,
                                  !.result = [success |-> FALSE, backend |-> backendName,
                                              data |-> "null"]]
               ELSE [tried EXCEPT !.errors = errors, !.i = NextEntry(fb.i)]
  /\ FallbackFrame

\* the loop of execute has run out of entries
Exhausted ==
  /\ sut = "FallbackManager"
  /\ fb.op \in {"execute", "robustHash"}
  /\ fb.phase = "loop"
  /\ fb.i > Len(fb.order)
  /\ fb' = [fb EXCEPT !.phase = "executed",
                      !.result = [success |-> FALSE, backend |-> "", data |-> "null"]]
  /\ FallbackFrame

\* robustHash after fm.hash(data) has returned
RobustHashReturn ==
  /\ sut = "FallbackManager"
  /\ fb.op = "robustHash"
  /\ fb.phase = "executed"
  /\ LET out == robustHashOutcome(fb.result, errorMessage(fb.errors, 1))
     IN  fb' = [fb EXCEPT !.phase = "returned", !.returned = out.returned,
                         !.thrown = out.thrown]
  /\ FallbackFrame

\* one pass of the loop of getAvailableBackends: createBackendByName does
\* not throw, so the name is pushed
ListBackend ==
  /\ sut = "FallbackManager"
  /\ fb.op \in {"getAvailableBackends", "getBestBackend"}
  /\ fb.phase = "loop"
  /\ fb.i <= Len(fb.order)
  /\ fb' = [fb EXCEPT !.listed = Append(@, fb.order[fb.i]), !.i = @ + 1,
                      !.log = Append(@, [backend |-> fb.order[fb.i],
                                         class |-> createBackendByName(fb.order[fb.i]),
                                         outcome |-> "ok"])]
  /\ FallbackFrame

\* getAvailableBackends returns the list; getBestBackend its first entry,
\* or "purejs" for an empty list
ListReturn ==
  /\ sut = "FallbackManager"
  /\ fb.op \in {"getAvailableBackends", "getBestBackend"}
  /\ fb.phase = "loop"
  /\ fb.i > Len(fb.order)
  /\ fb' = [fb EXCEPT !.phase = "returned",
                      !.returned = IF fb.op = "getAvailableBackends" THEN "available"
                                   ELSE IF Len(fb.listed) = 0 THEN "purejs"
                                   ELSE fb.listed[1]]
  /\ FallbackFrame

\* robustHash with forceBackend, or with fallback: false: the backend is
\* created and backend.hash(data) returned; hash returns or throws
DirectAttempt(outcome) ==
  /\ sut = "FallbackManager"
  /\ fb.op \in {"robustHash(forceBackend)", "robustHash(fallback: false)"}
  /\ fb.phase = "loop"
  /\ LET backendName == IF fb.op = "robustHash(forceBackend)" THEN fb.force
                        ELSE getBestAvailableBackend(getAllAvailableBackends(fb.env))
     IN  fb' = [fb EXCEPT !.log = Append(@, [backend |-> backendName,
                                            class |-> createBackendByName(backendName),
                                            outcome |-> outcome]),
                         !.phase = "returned",
                         !.returned = IF outcome = "ok" THEN HelloDigest ELSE "",
                         !.thrown = IF outcome = "ok" THEN ""
                                    ELSE createBackendByName(backendName) \o " failed"]
  /\ FallbackFrame

NextFallback ==
  \/ \E outcome \in {"ok", "throw"} : Attempt(outcome)
  \/ \E outcome \in {"ok", "throw"} : DirectAttempt(outcome)
  \/ Exhausted
  \/ RobustHashReturn
  \/ ListBackend
  \/ ListReturn

SpecFallback == InitFallback /\ [][NextFallback]_vars

(***************************************************************************)
(* Calls of getBestAvailableBackend on a list and on the same list in      *)
(* reverse order.                                                          *)
(***************************************************************************)
MaxList == 3
ListNames == KnownNames \cup {"legacy", "PureJS"}
BackendLists == UNION {[1..n -> ListNames] : n \in 0..MaxList}

Reverse(list) == [j \in 1..Len(list) |-> list[Len(list) + 1 - j]]

InitPriority ==
  /\ sut = "getBestAvailableBackend"
  /\ msg = 1
  /\ StreamInit
  /\ BackendInit
  /\ oneShot = NoCall
  /\ snap = Idle /\ two = Idle /\ pipe = Idle /\ MoreIdle
  /\ call \in {[list |-> l, returned |-> "", reversed |-> ""] : l \in BackendLists}

\* getBestAvailableBackend(list)
BestCall ==
  /\ sut = "getBestAvailableBackend"
  /\ call.returned = ""
  /\ call' = [call EXCEPT !.returned = getBestAvailableBackend(call.list)]
  /\ CallFrame

\* getBestAvailableBackend([...list].reverse())
BestCallReversed ==
  /\ sut = "getBestAvailableBackend"
  /\ call.reversed = ""
  /\ call' = [call EXCEPT !.reversed = getBestAvailableBackend(Reverse(call.list))]
  /\ CallFrame

NextPriority == BestCall \/ BestCallReversed

SpecPriority == InitPriority /\ [][NextPriority]_vars

(***************************************************************************)
(* md51 on strings whose characters are UTF-16 code units: charCodeAt       *)
(* returns the unit, 0..65535.  A string is a filler of digits with one    *)
(* chosen unit at one index.                                               *)
(***************************************************************************)
\* 'A', e-acute, then units above 255: U+0100, U+0141, the euro sign
CodeUnits == {65, 233, 256, 321, 8364}
StringLens == {5, 64, 70}
UnitIndexes == (0..7) \cup (60..69)

\* the string of n characters with unit c at index p (0-based)
StringWith(len, at, unit) ==
  [i \in 1..len |-> IF i = at + 1 THEN unit ELSE 48 + (i % 10)]

NoBlocks == << >>

InitUnits ==
  /\ sut = "md51"
  /\ msg = 1
  /\ StreamInit
  /\ BackendInit
  /\ oneShot = NoCall
  /\ snap = Idle /\ two = Idle /\ pipe = Idle /\ MoreIdle
  /\ call \in {[s |-> StringWith(len, at, unit), index |-> at, called |-> FALSE,
                blocks |-> NoBlocks] :
                 len \in StringLens, at \in UnitIndexes, unit \in CodeUnits}
  /\ call.index < Len(call.s)

\* md51(s): the blocks it hands to md5cycle, md5blk(...) for each 64
\* characters and the tail, with the words as md5cycle's additions read them
Md51Blocks ==
  /\ sut = "md51"
  /\ ~call.called
  /\ call' = [call EXCEPT !.called = TRUE, !.blocks = md51Blocks(call.s)]
  /\ CallFrame

\* the string read again by a caller
Md51Again ==
  /\ sut = "md51"
  /\ call.called
  /\ call' = [call EXCEPT !.called = FALSE, !.blocks = NoBlocks]
  /\ CallFrame

NextUnits == Md51Blocks \/ Md51Again

SpecUnits == InitUnits /\ [][NextUnits]_vars

(***************************************************************************)
(* createProgressTracker(totalSize, onUpdate) and the callback it returns. *)
(* current is a count of bytes; a percentage is the quotient num / den    *)
(* kept exact, with den > 0.                                               *)
(***************************************************************************)
TotalSizes == {-1, 0, 1, 3, 7, 300}
MaxCurrent == 8
NoArgument == -1

Percent(num, den) == [num |-> num, den |-> den]
\* Math.floor(percentage)
Floor(q) == q.num \div q.den

\* Math.min(100, (current / totalSize) * 100), for totalSize > 0
percentageOf(current, totalSize) ==
  IF 100 * current >= 100 * totalSize THEN Percent(100, 1)
  ELSE Percent(100 * current, totalSize)

\* the callback keeping lastPercentage as it was after onUpdate
tracker_forgets(totalSize, lastPercentage, current) ==
  IF totalSize > 0
  THEN LET percentage == percentageOf(current, totalSize)
       IN  IF Floor(percentage) # Floor(lastPercentage)
           THEN [invoked |-> TRUE, percentage |-> percentage,
                 lastPercentage |-> lastPercentage]
           ELSE [invoked |-> FALSE, percentage |-> percentage,
                 lastPercentage |-> lastPercentage]
  ELSE [invoked |-> FALSE, percentage |-> Percent(0, 1),
        lastPercentage |-> lastPercentage]

\* the callback: whether onUpdate is invoked, with which percentage, and
\* lastPercentage after the call
tracker(totalSize, lastPercentage, current) ==
  IF totalSize > 0
  THEN LET percentage == percentageOf(current, totalSize)
       IN  IF Floor(percentage) # Floor(lastPercentage)
           THEN [invoked |-> TRUE, percentage |-> percentage,
                 lastPercentage |-> percentage]
           ELSE [invoked |-> FALSE, percentage |-> percentage,
                 lastPercentage |-> lastPercentage]
  ELSE [invoked |-> FALSE, percentage |-> Percent(0, 1),
        lastPercentage |-> lastPercentage]

\* createProgressTracker(totalSize, onUpdate): let lastPercentage = 0; the
\* caller's onUpdate has received nothing yet
createProgressTracker(totalSize) ==
  [totalSize |-> totalSize, lastPercentage |-> Percent(0, 1),
   current |-> NoArgument, previous |-> NoArgument,
   invoked |-> FALSE, percentage |-> Percent(0, 1),
   reported |-> Percent(0, 1), reportedBefore |-> Percent(0, 1)]

InitTracker ==
  /\ sut = "createProgressTracker"
  /\ msg = 1
  /\ StreamInit
  /\ BackendInit
  /\ oneShot = NoCall
  /\ snap = Idle /\ two = Idle /\ pipe = Idle /\ MoreIdle
  /\ call \in {createProgressTracker(totalSize) : totalSize \in TotalSizes}

\* the returned callback called with current; onUpdate, when invoked,
\* records the percentage it is given
Track(current) ==
  /\ sut = "createProgressTracker"
  /\ LET r == tracker(call.totalSize, call.lastPercentage, current)
     IN  call' = [call EXCEPT
                    !.lastPercentage = r.lastPercentage,
                    !.previous = call.current,
                    !.current = current,
                    !.invoked = r.invoked,
                    !.percentage = r.percentage,
                    !.reportedBefore = call.reported,
                    !.reported = IF r.invoked THEN r.percentage ELSE @]
  /\ CallFrame

NextTracker == \E current \in 0..MaxCurrent : Track(current)

SpecTracker == InitTracker /\ [][NextTracker]_vars

(***************************************************************************)
(* write(chunk) with a Buffer: the Writable hands the caller's Buffer       *)
(* itself to _transform, which reads it through the local variable data.   *)
(***************************************************************************)
ChunkMessages == {7, 8}
CallerChunkLens == {0, 1, 3, 16, 64, 65}
NoChunk == [chunk |-> << >>, after |-> << >>, pending |-> 0]

\* the caller's Buffer after _transform: when bytes are left over once the
\* pending buffer has been filled, data[i] = data[bytesToCopy + i] is
\* assigned for i < remainingData while data is still the caller's Buffer
_transform_chunk(S, chunk) ==
  LET dataLength == Len(chunk)
      currentBufferLength == S.bufferLength
      neededBytes == 64 - currentBufferLength
      bytesToCopy == Min(dataLength, neededBytes)
      remainingData == dataLength - bytesToCopy
  IN  IF dataLength = 0 THEN chunk
      ELSE IF currentBufferLength > 0 /\ bytesToCopy # dataLength
      THEN [i \in 1..dataLength |->
              IF i <= remainingData THEN chunk[bytesToCopy + i] ELSE chunk[i]]
      ELSE chunk

InitChunk ==
  /\ sut = "MD5Stream"
  /\ msg \in ChunkMessages
  /\ StreamInit
  /\ BackendInit
  /\ oneShot = NoCall
  /\ snap = Idle /\ two = Idle /\ pipe = Idle /\ MoreIdle
  /\ call = NoChunk

\* write(chunk) with a Buffer holding the next n bytes of the message; the
\* caller keeps the Buffer
WriteChunk(n) ==
  /\ sut = "MD5Stream"
  /\ ~ended
  /\ written + n <= Len(Messages[msg])
  /\ LET chunk == SubSeq(Messages[msg], written + 1, written + n)
     IN  /\ \E S \in {_transform(This, chunk)} : Becomes(S)
         /\ call' = [chunk |-> chunk, after |-> _transform_chunk(This, chunk),
                     pending |-> bufferLength]
  /\ written' = written + n
  /\ writes' = Min(writes + 1, 2)
  /\ streamError' = "none"
  /\ lastOp' = "write"
  /\ UNCHANGED <<sut, ended, result, md5Events, msg, endCalled, resetAfterEnd,
                 pjVars, oneShot, snap, two, pipe, moreVars>>

NextChunk ==
  \/ \E n \in CallerChunkLens : WriteChunk(n)
  \/ \E m \in ChunkMessages : Reset(m)

SpecChunk == InitChunk /\ [][NextChunk]_vars

(***************************************************************************)
(* StreamBackend (the stream adapter) on a Node MD5Stream.  digest() calls *)
(* nodeStream.end() and then registers its 'md5' and 'error' listeners in  *)
(* the same synchronous call.  When the Transform runs _flush relative to  *)
(* end() is decided by the stream machinery: inside end(), or in a later   *)
(* tick; both are explored.                                                *)
(***************************************************************************)
SbMessages == {3, 7}
SbChunks == {3, 16, 64}
MaxPromises == 2
FlushTimings == {"in end()", "later tick"}
NotInitialized ==
  "Stream backend not initialized. Call initNodeStream() or initWhatWGStream() first."

\* private state: StreamBackendState | null = null
NewStreamBackend ==
  [state |-> "null", thrown |-> "", promises |-> << >>, scheduled |-> FALSE,
   op |-> "new"]

\* the listeners digest() registered, called with an event: 'md5' resolves
\* the promises still pending, 'error' rejects them
Settle(promises, value) ==
  [j \in 1..Len(promises) |-> IF promises[j] = "pending" THEN value ELSE promises[j]]

\* reset() of an uninitialised backend creating the state
resetUninitialised_initialises == "node"

\* reset(): if (!this.state) return
resetUninitialised == "null"

\* the promises whose listeners are registered when nodeStream.end() runs:
\* digest() creates its promise after the call
ListenersAtEnd(promises) == promises

InitStreamBackend ==
  /\ sut = "StreamBackend"
  /\ msg \in SbMessages
  /\ StreamInit
  /\ BackendInit
  /\ oneShot = NoCall
  /\ snap = Idle /\ two = Idle /\ pipe = Idle /\ call = Idle
  /\ hfs = Idle /\ fb = Idle /\ metrics = Idle /\ old = Idle
  /\ sb = NewStreamBackend

SbFrame == UNCHANGED <<sut, msg, pjVars, oneShot, snap, two, pipe, call, hfs, fb,
                       metrics, old>>
StreamKept == UNCHANGED <<state, bytesProcessed, bufferLength, buffer, fed>>

\* initNodeStream(new MD5Stream())
InitNodeStream ==
  /\ sut = "StreamBackend"
  /\ sb.state = "null"
  /\ sb' = [sb EXCEPT !.state = "node", !.thrown = "", !.op = "initNodeStream"]
  /\ UNCHANGED streamVars
  /\ SbFrame

\* update(data) with the next n bytes of the message
SbUpdate(n) ==
  /\ sut = "StreamBackend"
  /\ written + n <= Len(Messages[msg])
  /\ IF sb.state = "null"
     THEN /\ sb' = [sb EXCEPT !.thrown = NotInitialized, !.op = "update"]
          /\ UNCHANGED streamVars
     ELSE /\ IF ended
             THEN /\ streamError' = "write after end"
                  /\ sb' = [sb EXCEPT !.thrown = "", !.op = "update",
                                      !.promises = Settle(@, "rejected: write after end")]
                  /\ StreamKept
                  /\ UNCHANGED <<written, writes>>
             ELSE /\ \E S \in {_transform(This, SubSeq(Messages[msg], written + 1,
                                                       written + n))} : Becomes(S)
                  /\ written' = written + n
                  /\ writes' = Min(writes + 1, 2)
                  /\ streamError' = "none"
                  /\ sb' = [sb EXCEPT !.thrown = "", !.op = "update"]
          /\ lastOp' = "write"
          /\ UNCHANGED <<ended, result, md5Events, endCalled, resetAfterEnd>>
  /\ UNCHANGED msg
  /\ SbFrame

\* digest(): nodeStream.end(), then the promise with its listeners
SbDigest(timing) ==
  /\ sut = "StreamBackend"
  /\ IF sb.state = "null"
     THEN /\ sb' = [sb EXCEPT !.thrown = NotInitialized, !.op = "digest"]
          /\ UNCHANGED streamVars
     ELSE /\ Len(sb.promises) < MaxPromises
          /\ IF ended
             THEN /\ sb' = [sb EXCEPT !.thrown = "", !.op = "digest",
                                      !.promises = Append(@, "pending")]
                  /\ StreamKept
                  /\ UNCHANGED <<result, md5Events>>
             ELSE IF timing = "in end()"
             THEN \E F \in {_flush(This)} :
                    /\ Becomes(F.after)
                    /\ result' = F.md5
                    /\ md5Events' = md5Events + 1
                    /\ sb' = [sb EXCEPT !.thrown = "", !.op = "digest",
                                        !.promises =
                                           Append(Settle(ListenersAtEnd(@), F.md5.digest),
                                                  "pending")]
             ELSE /\ sb' = [sb EXCEPT !.thrown = "", !.op = "digest",
                                      !.scheduled = TRUE,
                                      !.promises = Append(@, "pending")]
                  /\ StreamKept
                  /\ UNCHANGED <<result, md5Events>>
          /\ ended' = TRUE
          /\ endCalled' = TRUE
          /\ lastOp' = "end"
          /\ streamError' = "none"
          /\ UNCHANGED <<written, writes, resetAfterEnd>>
  /\ UNCHANGED msg
  /\ SbFrame

\* the _flush that end() left for a later tick: 'md5' reaches the listeners
SbFlushLater ==
  /\ sut = "StreamBackend"
  /\ sb.scheduled
  /\ \E F \in {_flush(This)} :
        /\ Becomes(F.after)
        /\ result' = F.md5
        /\ md5Events' = md5Events + 1
        /\ sb' = [sb EXCEPT !.scheduled = FALSE, !.op = "flush",
                            !.promises = Settle(@, F.md5.digest)]
  /\ UNCHANGED <<ended, streamError, msg, written, writes, endCalled, resetAfterEnd,
                 lastOp>>
  /\ SbFrame

\* reset()
SbReset ==
  /\ sut = "StreamBackend"
  /\ IF sb.state = "null"
     THEN /\ sb' = [sb EXCEPT !.state = resetUninitialised, !.thrown = "",
                              !.op = "reset"]
          /\ UNCHANGED streamVars
     ELSE /\ sb' = [sb EXCEPT !.thrown = "", !.op = "reset"]
          /\ Becomes(reset(This))
          /\ written' = 0
          /\ writes' = 0
          /\ resetAfterEnd' = ended
          /\ lastOp' = "reset"
          /\ UNCHANGED <<ended, streamError, result, md5Events, msg, endCalled>>
  /\ SbFrame

NextStreamBackend ==
  \/ InitNodeStream
  \/ \E n \in SbChunks : SbUpdate(n)
  \/ \E timing \in FlushTimings : SbDigest(timing)
  \/ SbFlushLater
  \/ SbReset

SpecStreamBackend == InitStreamBackend /\ [][NextStreamBackend]_vars

\* the steps of SbFlushLater, told by the 'md5' event they add while a
\* _flush is scheduled
FlushTick == sb.scheduled /\ md5Events' = md5Events + 1

\* a _flush left for a later tick does run
FairStreamBackend == SpecStreamBackend /\ WF_md5Events(FlushTick)

(***************************************************************************)
(* MetricsCollector (utils/detect.ts).  this.metrics is an object literal  *)
(* with four own keys; this.metrics[backend] for another name is undefined *)
(* unless the name is a property every object inherits ("constructor",     *)
(* "toString"), in which case it is an object that is none of the four     *)
(* records.                                                                *)
(***************************************************************************)
KnownBackends == {"nodecrypto", "webcrypto", "ie11", "purejs"}
InheritedNames == {"constructor", "toString"}
BackendNames == KnownBackends \cup InheritedNames \cup {"unknown"}
MaxRecords == 3

ZeroCounters == [b \in KnownBackends |-> [success |-> 0, fail |-> 0]]

\* the collector: its four records, and the inherited objects on which a
\* record call has written a property
NewMetricsCollector == [metrics |-> ZeroCounters, touched |-> {}]

\* recordFail counting a success
recordFail_countsSuccess(M, backend) ==
  IF backend \in KnownBackends
  THEN [M EXCEPT !.metrics[backend].success = @ + 1]
  ELSE IF backend \in InheritedNames
  THEN [M EXCEPT !.touched = @ \cup {backend}]
  ELSE M

\* if (this.metrics[backend]) this.metrics[backend].success++
recordSuccess(M, backend) ==
  IF backend \in KnownBackends
  THEN [M EXCEPT !.metrics[backend].success = @ + 1]
  ELSE IF backend \in InheritedNames
  THEN [M EXCEPT !.touched = @ \cup {backend}]
  ELSE M

\* if (this.metrics[backend]) this.metrics[backend].fail++
recordFail(M, backend) ==
  IF backend \in KnownBackends
  THEN [M EXCEPT !.metrics[backend].fail = @ + 1]
  ELSE IF backend \in InheritedNames
  THEN [M EXCEPT !.touched = @ \cup {backend}]
  ELSE M

\* Object.keys(this.metrics).forEach(key => this.metrics[key] = {0, 0})
resetMetrics(M) == [M EXCEPT !.metrics = ZeroCounters]

\* the total of getSummary(): the reduce over Object.values(this.metrics)
RECURSIVE SumOver(_, _)
SumOver(M, names) ==
  IF names = {} THEN 0
  ELSE LET b == CHOOSE x \in names : TRUE
       IN  M.metrics[b].success + M.metrics[b].fail + SumOver(M, names \ {b})
getSummary(M) == SumOver(M, KnownBackends)

NoCalls == [b \in BackendNames |-> [success |-> 0, fail |-> 0]]

InitMetrics ==
  /\ sut = "MetricsCollector"
  /\ msg = 1
  /\ StreamInit
  /\ BackendInit
  /\ oneShot = NoCall
  /\ snap = Idle /\ two = Idle /\ pipe = Idle /\ call = Idle
  /\ hfs = Idle /\ fb = Idle /\ old = Idle /\ sb = Idle
  /\ metrics = [this |-> NewMetricsCollector, calls |-> NoCalls, made |-> 0,
                threw |-> FALSE, summary |-> 0, last |-> "new"]

MetricsFrame == UNCHANGED <<sut, streamVars, pjVars, oneShot, snap, two, pipe, call, hfs,
                            fb, old, sb>>

RecordSuccess(b) ==
  /\ sut = "MetricsCollector"
  /\ metrics.made < MaxRecords
  /\ metrics' = [metrics EXCEPT !.this = recordSuccess(@, b),
                                !.calls[b].success = @ + 1,
                                !.made = @ + 1,
                                !.last = "recordSuccess"]
  /\ MetricsFrame

RecordFail(b) ==
  /\ sut = "MetricsCollector"
  /\ metrics.made < MaxRecords
  /\ metrics' = [metrics EXCEPT !.this = recordFail(@, b),
                                !.calls[b].fail = @ + 1,
                                !.made = @ + 1,
                                !.last = "recordFail"]
  /\ MetricsFrame

ResetMetrics ==
  /\ sut = "MetricsCollector"
  /\ metrics' = [metrics EXCEPT !.this = resetMetrics(@), !.calls = NoCalls,
                                !.made = 0, !.last = "reset"]
  /\ MetricsFrame

GetSummary ==
  /\ sut = "MetricsCollector"
  /\ metrics' = [metrics EXCEPT !.summary = getSummary(metrics.this),
                                !.last = "getSummary"]
  /\ MetricsFrame

NextMetrics ==
  \/ \E b \in BackendNames : RecordSuccess(b)
  \/ \E b \in BackendNames : RecordFail(b)
  \/ ResetMetrics
  \/ GetSummary

SpecMetrics == InitMetrics /\ [][NextMetrics]_vars

(***************************************************************************)
(* Finalizing long messages: an MD5Stream that has taken bytesProcessed    *)
(* bytes in whole blocks and holds bufferLength pending bytes, and is then *)
(* ended.  The words of the hash state and the bytes of the buffer after   *)
(* that many blocks are not computed: the length words of the last block   *)
(* do not depend on them.                                                  *)
(***************************************************************************)
LongCounts == {Pow2[29] - 64, Pow2[29], Pow2[30], MaxInt32 - 63}

InitLong ==
  /\ sut = "MD5Stream"
  /\ bytesProcessed \in LongCounts
  /\ bufferLength \in 0..63
  /\ state = initialMD5State
  /\ buffer = EmptyBuffer
  /\ fed = << >>
  /\ ended = FALSE
  /\ streamError = "none"
  /\ result = NoResult
  /\ md5Events = 0
  /\ msg = 1
  /\ written = bytesProcessed + bufferLength
  /\ writes = 2
  /\ endCalled = FALSE
  /\ resetAfterEnd = FALSE
  /\ lastOp = "write"
  /\ BackendInit
  /\ oneShot = NoCall
  /\ snap = Idle /\ two = Idle /\ pipe = Idle /\ call = Idle /\ MoreIdle

SpecLong == InitLong /\ [][End]_vars

(***************************************************************************)
(* Properties                                                              *)
(***************************************************************************)
\* the message bytes the session has accepted
Accepted == SubSeq(Messages[msg], 1, written)

\* a fresh MD5Stream after one write of all of data and end()
SingleWrite(data) == _flush(_transform(NewMD5Stream, data))

\* C1: chunking invariance.  When a session that began on a fresh (or reset)
\* stream has been ended, the blocks handed to md5cycle, padding blocks
\* included, and the digest emitted are those of a fresh stream given all the
\* accepted bytes in one single write and then ended, however the bytes were
\* cut into chunks.
C1_ChunkingInvariance ==
  (sut = "MD5Stream" /\ result # NoResult) =>
    \E one \in {SingleWrite(Accepted)} :
       /\ fed = one.after.fed
       /\ result.digest = one.md5.digest

\* the long message, written in two or more chunks, has been ended
C1_Witness ==
  /\ sut = "MD5Stream"
  /\ lastOp = "end"
  /\ msg = NumMessages
  /\ written = MaxTotal
  /\ writes = 2
  /\ Len(fed) = (MaxTotal \div 64) + 1


\* C2: block accounting.  While the stream is open and L bytes have been
\* written, in any chunking, exactly floor(L / 64) blocks have been compressed,
\* the pending buffer holds L mod 64 (at most 63) bytes that are the last
\* bytes written, and L = 64 * blocks + pending.
C2_BlockAccounting ==
  (sut = "MD5Stream" /\ ~ended) =>
     /\ Len(fed) = written \div 64
     /\ bufferLength = written % 64
     /\ bufferLength \in 0..63
     /\ SubSeq(buffer, 1, bufferLength) =
          SubSeq(Messages[msg], written - bufferLength + 1, written)
     /\ bytesProcessed = 64 * Len(fed)
     /\ written = 64 * Len(fed) + bufferLength

\* two writes have left two compressed blocks and one pending byte
C2_Witness ==
  /\ sut = "MD5Stream" /\ ~ended /\ lastOp = "write" /\ writes = 2
  /\ written = 129 /\ Len(fed) = 2 /\ bufferLength = 1

\* C3: byte counting.  getBytesProcessed() and getCurrentState().bytesProcessed
\* equal the sum of the lengths of the chunks written, at every point of the
\* session, and the result emitted with 'md5' carries the total length of the
\* message.
C3_ByteCounting ==
  sut = "MD5Stream" =>
     /\ getBytesProcessed(This) = written
     /\ getCurrentState(This).bytesProcessed = written
     /\ result # NoResult => result.bytesProcessed = written

\* a message whose last bytes never filled a block has been finalized
C3_Witness ==
  /\ sut = "MD5Stream" /\ lastOp = "end" /\ writes = 2
  /\ written = MaxTotal /\ written % 64 # 0
  /\ result.bytesProcessed = MaxTotal

\* the stream fields a rejected call must leave alone
StreamData == <<state, bytesProcessed, bufferLength, buffer, fed, result,
                md5Events, written>>

WriteAfterEnd == sut = "MD5Stream" /\ ended /\ \E n \in ChunkLens : Write(n)
UpdateAfterDigest ==
  sut = "PureJSBackend" /\ pjFinished /\ \E d \in UpdateInputs : Update(d)

EndAfterEnd == sut = "MD5Stream" /\ ended /\ End
DigestAfterDigest == sut = "PureJSBackend" /\ pjFinished /\ Digest

BitLengthLow(L) ==
  LET m == L % Pow2[29]
  IN  IF m >= Pow2[28] THEN 8 * (m - Pow2[28]) + MinInt32 ELSE 8 * m
BitLengthHigh(L) == L \div Pow2[29]

\* C6: 64-bit length field.  In the last block compressed for an L-byte
\* message, word 14 holds the low and word 15 the high 32 bits of the bit
\* length 8 * L, also when L >= 2^29.
C6_LengthField ==
  (sut = "MD5Stream" /\ result # NoResult) =>
     /\ fed[Len(fed)][15] = BitLengthLow(written)
     /\ fed[Len(fed)][16] = BitLengthHigh(written)

\* the 64 bytes that follow the whole blocks of the message: the pending
\* bytes, 0x80, zeros
PaddedTail ==
  [i \in 1..64 |->
     IF i <= written % 64 THEN Messages[msg][written - (written % 64) + i]
     ELSE IF i = (written % 64) + 1 THEN 128 ELSE 0]

\* C7: padding layout.  With p pending bytes at finalize: for p <= 55 one more
\* block is compressed, holding the pending bytes, 0x80, zeros and the length
\* in words 14-15; for p >= 56 two more blocks are compressed, the first
\* holding the pending bytes, 0x80 and zeros through word 15, the second all
\* zero but for the length in words 14-15.
C7_PaddingLayout ==
  (sut = "MD5Stream" /\ result # NoResult) =>
     LET blocks == written \div 64
         pad == BlockAt(PaddedTail, 0)
         len == [ZeroTail EXCEPT ![15] = BitLengthLow(written),
                                 ![16] = BitLengthHigh(written)]
     IN  IF written % 64 <= 55
         THEN /\ Len(fed) = blocks + 1
              /\ fed[blocks + 1] = [pad EXCEPT ![15] = len[15], ![16] = len[16]]
         ELSE /\ Len(fed) = blocks + 2
              /\ fed[blocks + 1] = pad
              /\ fed[blocks + 2] = len

\* a message finalized with exactly 56 pending bytes
C7_Witness ==
  /\ sut = "MD5Stream" /\ lastOp = "end" /\ result # NoResult
  /\ written % 64 = 56 /\ Len(fed) = (written \div 64) + 2

\* C8: reference vectors.  md5(), md5Core() and an MD5Stream fed the whole
\* message give the RFC 1321 digests for "", "a", "abc", "message digest",
\* the lower-case alphabet, the 62 alphanumerics and the 80 digits.
C8_ReferenceVectors ==
  /\ (sut = "md5" /\ oneShot # NoCall /\ oneShot.input <= Len(RFCVectors)) =>
        /\ oneShot.md5 = RFCDigests[oneShot.input]
        /\ oneShot.md5Core = RFCDigests[oneShot.input]
  /\ (sut = "MD5Stream" /\ result # NoResult /\ msg <= Len(RFCVectors)
        /\ written = Len(Messages[msg])) =>
        result.digest = RFCDigests[msg]

\* md5() has been called on the 80 digits
C8_Witness ==
  /\ sut = "md5" /\ oneShot.input = 7 /\ Len(Messages[7]) = 80
  /\ oneShot.md5 = "57edf4a22be3c955ac49da2e2107b67a"

\* C9: fresh state after reset.  Right after construction and right after
\* reset(), called in any state, the four state words are the initial values,
\* the pending buffer is empty and bytesProcessed is 0.
C9_FreshAfterReset ==
  (sut = "MD5Stream" /\ lastOp \in {"new", "reset"}) =>
     /\ state = <<1732584193, -271733879, -1732584194, 271733878>>
     /\ bufferLength = 0
     /\ buffer = [i \in 1..64 |-> 0]
     /\ bytesProcessed = 0
     /\ getBytesProcessed(This) = 0
     /\ getCurrentState(This) = getCurrentState(NewMD5Stream)

\* reset() has been called on a finalized instance
C9_Witness ==
  /\ sut = "MD5Stream" /\ lastOp = "reset" /\ resetAfterEnd /\ md5Events = 1

Undisturbed ==
  IF result # NoResult THEN SingleWrite(Accepted).after
  ELSE _transform(NewMD5Stream, Accepted)

\* C11: defensive snapshot.  Whatever the caller writes into the object
\* getCurrentState() returned, the next getCurrentState() and the digest
\* emitted at the end are those of a session whose snapshots were left alone.
C11_DefensiveSnapshot ==
  sut = "MD5Stream" =>
     /\ getCurrentState(This) = getCurrentState(Undisturbed)
     /\ result # NoResult => result = SingleWrite(Accepted).md5

\* a snapshot taken after the first block was overwritten, and the message
\* was then finalized
C11_Witness ==
  /\ sut = "MD5Stream" /\ lastOp = "end" /\ written = 80
  /\ snap.held /\ snap.value.bytesProcessed = 999 /\ snap.value.state[1] = 0
  /\ snap.value.state[2] # initialMD5State[2]


HexDigits == {"0", "1", "2", "3", "4", "5", "6", "7", "8", "9",
              "a", "b", "c", "d", "e", "f"}

\* the characters rhex(n) appends to s, one by one
rhexChars(n) ==
  [c \in 1..8 |->
     hex_chr[And32(Shr32(n, ((c - 1) \div 2) * 8 + (IF c % 2 = 1 THEN 4 ELSE 0)), 15) + 1]]

\* the characters of hex(x) for four words
DigestChars(x) == rhexChars(x[1]) \o rhexChars(x[2]) \o rhexChars(x[3]) \o rhexChars(x[4])

RECURSIVE Join(_)
Join(cs) == IF cs = << >> THEN "" ELSE Head(cs) \o Join(Tail(cs))

\* d has 32 characters, each a lower-case hex digit: it is the string of the
\* 32 characters encoded from the words st, and those are hex digits
WellFormedDigest(d, st) ==
  /\ Len(d) = 32
  /\ Len(DigestChars(st)) = 32
  /\ \A c \in 1..32 : DigestChars(st)[c] \in HexDigits
  /\ d = Join(DigestChars(st))

\* C12: digest format.  Every digest produced, by the stream in any chunking,
\* by md5(), by md5Core() or by the backend, has exactly 32 characters, each
\* of them in 0-9 or a-f.
C12_DigestFormat ==
  /\ (sut = "MD5Stream" /\ result # NoResult) =>
        WellFormedDigest(result.digest, state)
  /\ (sut = "md5" /\ oneShot # NoCall) =>
        /\ WellFormedDigest(oneShot.md5, md51(Messages[oneShot.input], "add32"))
        /\ WellFormedDigest(oneShot.md5Core, md51(Messages[oneShot.input], "add32"))
  /\ sut = "PureJSBackend" =>
        \A k \in 1..Len(pjDigests) :
           WellFormedDigest(pjDigests[k], md51(pjData, "add32"))

\* the alphabet has been written in two or more chunks and finalized
C12_Witness ==
  /\ sut = "MD5Stream" /\ lastOp = "end" /\ msg = 5 /\ written = 26 /\ writes = 2
  /\ result.digest = "c3fcd3d76192e4007dfb496cca67e13b"


(***************************************************************************)
(* The encoder and the adders on numbers                                   *)
(***************************************************************************)
Digit == <<"0", "1", "2", "3", "4", "5", "6", "7",
           "8", "9", "a", "b", "c", "d", "e", "f">>

\* byte j of the 32-bit word of n, byte 0 the least significant
ByteOf(n, j) ==
  IF j = 0 THEN n.lo % 256
  ELSE IF j = 1 THEN n.lo \div 256
  ELSE IF j = 2 THEN n.hi % 256
  ELSE (n.hi % 65536) \div 256

ByteHex(b) == Digit[(b \div 16) + 1] \o Digit[(b % 16) + 1]

LittleEndianHex(n) ==
  ByteHex(ByteOf(n, 0)) \o ByteHex(ByteOf(n, 1))
  \o ByteHex(ByteOf(n, 2)) \o ByteHex(ByteOf(n, 3))

RECURSIVE WordsHex(_, _)
WordsHex(x, i) ==
  IF i > Len(x) THEN "" ELSE LittleEndianHex(x[i].num) \o WordsHex(x, i + 1)

\* C13: rhex renders a 32-bit word, signed or unsigned, as its four bytes
\* least significant first, each byte as two lowercase hexadecimal digits,
\* high nibble first; hex concatenates the renderings of the words in index
\* order, so that the initial state renders as
\* 0123456789abcdeffedcba9876543210.
C13_EncoderByteOrder ==
  /\ call.op = "rhex" => call.str = LittleEndianHex(call.in.x)
  /\ call.op \in {"hex", "hexInPlace"} =>
       /\ call.str = WordsHex(call.in.words, 1)
       /\ Len(call.str) = 8 * Len(call.in.words)
       /\ call.in.words = IVNumbers => call.str = "0123456789abcdeffedcba9876543210"

C13_Witness ==
  /\ call.op = "hex"
  /\ call.in.words = IVNumbers
  /\ call.str = "0123456789abcdeffedcba9876543210"

\* C14: hex leaves its argument array unchanged: after the call the array
\* holds the numbers it held before, for either variant of hex.
C14_EncoderPurity ==
  call.op \in {"hex", "hexInPlace"} => call.arg = call.in.words

\* x + y modulo 2^32 as a signed 32-bit integer, from the halves of x and y
SumMod32(x, y) ==
  LET lo == x.lo + y.lo
      hi == (x.hi + y.hi + (lo \div 65536)) % 65536
  IN  ToInt32(Num(hi, lo % 65536))

\* C15: for operands in signed or unsigned representation add32(x, y) is
\* x + y modulo 2^32 and lies in the 32-bit range; the 16-bit-split adder
\* md5() falls back to returns the same value, and the digest computed
\* with it is the digest computed with add32.
C15_WrappingAddition ==
  /\ call.op \in {"add32", "add32Split"} =>
       /\ call.num = SumMod32(call.in.x, call.in.y)
       /\ call.num \in MinInt32..MaxInt32
       /\ call.num = add32(ToInt32(call.in.x), ToInt32(call.in.y))
  /\ call.op \in {"md51(add32)", "md51(add32Split)"} =>
       /\ call.str = hex(md51(Messages[call.in.m], "add32"))
       /\ call.in.m <= Len(RFCDigests) => call.str = RFCDigests[call.in.m]

\* add32Split(4294967295, 4294967295) = -2
C15_Witness ==
  /\ call.op = "add32Split"
  /\ call.in.x = Num(65535, 65535)
  /\ call.in.y = Num(65535, 65535)
  /\ call.num = -2

(***************************************************************************)
(* Several instances                                                       *)
(***************************************************************************)
\* what instance i owns: state words, pending bytes, counters, result
Owned(T, i) ==
  LET S == Load(T, i)
  IN  [state |-> S.state, pending |-> SubSeq(S.buffer, 1, S.bufferLength),
       bytesProcessed |-> S.bytesProcessed, bufferLength |-> S.bufferLength,
       ended |-> T.inst[i].ended, result |-> T.inst[i].result]

\* the same operations on a lone instance: the accepted bytes in one write,
\* then end() if the session was ended
Alone(i, w, e, r) ==
  LET data == SubSeq(Messages[TwoMessage(i)], 1, w)
      S == IF r # NoResult THEN SingleWrite(data).after
           ELSE _transform(NewMD5Stream, data)
  IN  [state |-> S.state, pending |-> SubSeq(S.buffer, 1, S.bufferLength),
       bytesProcessed |-> S.bytesProcessed, bufferLength |-> S.bufferLength,
       ended |-> e,
       result |-> IF r # NoResult THEN SingleWrite(data).md5 ELSE NoResult]

\* C16: session isolation.  However the write, end, reset and
\* getCurrentState calls of two instances are interleaved, each instance
\* holds the state words, pending bytes and counters, and has emitted the
\* digest and bytesProcessed, of a lone instance given the same bytes; and
\* an operation of one instance changes nothing the other one owns.
C16_SessionIsolation ==
  /\ [](sut = "two MD5Streams" =>
         \A i \in Instances :
            Owned(two, i) = Alone(i, two.inst[i].written, two.inst[i].ended,
                                  two.inst[i].result))
  /\ [][sut = "two MD5Streams" =>
         \A j \in Instances : two'.actor # j => Owned(two', j) = Owned(two, j)]_vars

C16_Witness ==
  /\ sut = "two MD5Streams"
  /\ two.interleaved
  /\ two.inst[1].result = [digest |-> RFCDigests[7], bytesProcessed |-> 80]
  /\ two.inst[2].result = [digest |-> RFCDigests[6], bytesProcessed |-> 62]
  /\ two.seen.bytesProcessed = 30

(***************************************************************************)
(* Empty writes and the 'md5' event                                        *)
(***************************************************************************)
EmptyWrite == sut = "MD5Stream" /\ Write(0)

\* C17: a write of zero bytes, on a fresh, a partly fed, an ended or a reset
\* stream, leaves the state words, the pending buffer and its length and
\* bytesProcessed unchanged, hands no block to md5cycle and emits nothing.
C17_EmptyWriteNoOp ==
  [][EmptyWrite => UNCHANGED <<state, bytesProcessed, bufferLength, buffer, fed,
                               result, md5Events, written>>]_vars

\* one of the two writes of a stream that holds one byte was empty
C17_Witness ==
  /\ sut = "MD5Stream"
  /\ ~ended
  /\ lastOp = "write"
  /\ writes = 2
  /\ written = 1
  /\ bufferLength = 1
  /\ bytesProcessed = 0

\* C18: 'md5' is emitted only by end() on a stream that is not yet ended, in
\* _flush: no write, reset or further end() emits it, so an ended stream has
\* emitted it once; the event carries the digest and the count of the bytes
\* the session accepted before end().
C18_Md5OnlyAtEnd ==
  /\ [](sut = "MD5Stream" => md5Events <= 1 /\ (md5Events = 1 => ended))
  /\ [][md5Events' # md5Events =>
          /\ ~ended /\ ended'
          /\ lastOp' = "end"
          /\ md5Events' = md5Events + 1
          /\ result' = SingleWrite(Accepted).md5]_vars

C18_Witness ==
  /\ sut = "MD5Stream"
  /\ lastOp = "end"
  /\ md5Events = 1
  /\ msg = 4
  /\ writes = 2
  /\ result = [digest |-> RFCDigests[4], bytesProcessed |-> Len(Messages[4])]

(***************************************************************************)
(* The promise of pipeThroughMD5 / fromStream                              *)
(***************************************************************************)
\* C19: when the source has ended normally, with or without data, the
\* promise is resolved with the md5 result of all the bytes of the source,
\* never with undefined: 'md5' reaches its listener before 'finish' does.
C19_ResolvesWithResult ==
  (sut = "pipeThroughMD5" /\ pipe.source = "ended") =>
     /\ pipe.promise.status = "resolved"
     /\ pipe.promise.value # Undefined
     /\ pipe.promise.value =
          [digest |-> hex(md51(Messages[msg], "add32")),
           bytesProcessed |-> Len(Messages[msg])]
     /\ pipe.promise.value.digest = RFCDigests[msg]

\* a source without data has ended
C19_Witness ==
  /\ sut = "pipeThroughMD5"
  /\ pipe.source = "ended"
  /\ msg = 1
  /\ pipe.promise = [status |-> "resolved",
                     value |-> [digest |-> "d41d8cd98f00b204e9800998ecf8427e",
                                bytesProcessed |-> 0],
                     error |-> "none"]

\* C20: once the source has emitted an error the promise is rejected with
\* that error.
C20_RejectsOnSourceError ==
  (sut = "pipeThroughMD5" /\ pipe.source = "errored") =>
     /\ pipe.promise.status = "rejected"
     /\ pipe.promise.error = pipe.error

(***************************************************************************)
(* hashFileStream                                                           *)
(***************************************************************************)
\* C21: hashFileStream settles its promise once: resolved with the digest
\* and the count of all the bytes of the source once the source has ended,
\* rejected with the error of a source that fails before it ends, rejected
\* with 'Invalid readable stream' for an argument that is no stream; until
\* then it is pending, and once settled it does not change.
C21_SettlesOnce ==
  /\ [](sut = "hashFileStream" =>
         /\ hfs.settled <= 1
         /\ hfs.settled = 1 <=> hfs.promise.status # "pending"
         /\ hfs.source \in {"new", "flowing"} <=> hfs.promise.status = "pending"
         /\ hfs.source = "none" =>
              hfs.promise = [status |-> "rejected", value |-> NoResult,
                             error |-> InvalidStream]
         /\ ended =>
              hfs.promise = [status |-> "resolved",
                             value |-> [digest |-> RFCDigests[msg],
                                        bytesProcessed |-> Len(Messages[msg])],
                             error |-> "none"]
         /\ (hfs.source = "errored" /\ ~ended) =>
              hfs.promise = [status |-> "rejected", value |-> NoResult,
                             error |-> hfs.error])
  /\ [][(sut = "hashFileStream" /\ hfs.promise.status # "pending") =>
           hfs'.promise = hfs.promise]_vars

\* a source that failed after 19 bytes
C21_Witness ==
  /\ sut = "hashFileStream"
  /\ hfs.source = "errored"
  /\ written = 19
  /\ ~ended
  /\ hfs.promise.status = "rejected"
  /\ hfs.promise.error = "EIO"

RECURSIVE SumTo(_, _)
SumTo(q, k) == IF k = 0 THEN 0 ELSE q[k] + SumTo(q, k - 1)

\* C22: with onProgress supplied, hashFile / hashFileStream call it once
\* for each chunk of the source, with the number of bytes read so far; the
\* values never decrease, and the last one is the bytesProcessed of the
\* result.  Without onProgress nothing is reported.
C22_ProgressReporting ==
  sut = "hashFileStream" =>
    IF hfs.onProgress
    THEN /\ Len(hfs.progress) = Len(hfs.sizes)
         /\ \A k \in 1..Len(hfs.progress) : hfs.progress[k] = SumTo(hfs.sizes, k)
         /\ \A k \in 2..Len(hfs.progress) : hfs.progress[k - 1] <= hfs.progress[k]
         /\ (hfs.promise.status = "resolved" /\ Len(hfs.progress) > 0) =>
              hfs.progress[Len(hfs.progress)] = hfs.promise.value.bytesProcessed
    ELSE hfs.progress = << >>

\* hashFile on 80 bytes read as 16 + 64
C22_Witness ==
  /\ sut = "hashFileStream"
  /\ hfs.via = "hashFile"
  /\ hfs.onProgress
  /\ hfs.progress = <<16, 80>>
  /\ hfs.promise.status = "resolved"
  /\ hfs.promise.value.bytesProcessed = 80

C24_FallbackOrder ==
  /\ [](sut = "FallbackManager" /\ fb.op \in {"execute", "robustHash"} =>
         /\ Len(fb.log) <= Len(fb.order)
         /\ \A j \in 1..Len(fb.log) : fb.log[j].backend = fb.order[j]
         /\ \A j \in 1..(Len(fb.log) - 1) : fb.log[j].outcome = "throw"
         /\ fb.result.success =>
              /\ fb.log[Len(fb.log)].outcome = "ok"
              /\ fb.result.backend = fb.order[Len(fb.log)]
              /\ fb.result.data = HelloDigest
              /\ Len(fb.errors) = Len(fb.log) - 1)
  /\ [][(sut = "FallbackManager" /\ fb.result # NoFallbackResult) =>
           (fb'.log = fb.log /\ fb'.result = fb.result)]_vars

\* the operation threw on nodecrypto and returned on purejs
C24_Witness ==
  /\ sut = "FallbackManager"
  /\ fb.op = "execute"
  /\ fb.order = <<"nodecrypto", "purejs">>
  /\ fb.result = [success |-> TRUE, backend |-> "purejs", data |-> HelloDigest]
  /\ Len(fb.errors) = 1

\* the entries of order from i on whose backend is available in env
RECURSIVE AvailableFrom(_, _, _)
AvailableFrom(order, env, i) ==
  IF i > Len(order) THEN << >>
  ELSE (IF isAvailable(order[i], env) THEN <<order[i]>> ELSE << >>)
       \o AvailableFrom(order, env, i + 1)

\* C25: getAvailableBackends returns, in fallbackOrder order, the names
\* whose isAvailable() is true in the environment and no others, and
\* getBestBackend returns the first of them.
C25_AvailableBackends ==
  (sut = "FallbackManager" /\ fb.phase = "returned"
     /\ fb.op \in {"getAvailableBackends", "getBestBackend"}) =>
    LET available == AvailableFrom(fb.order, fb.env, 1)
    IN  /\ fb.listed = available
        /\ (fb.op = "getBestBackend" /\ Len(available) > 0) =>
              fb.returned = available[1]

\* every backend of the default order has failed
AllFailed ==
  /\ Len(fb.log) = Len(DefaultOrder)
  /\ \A j \in 1..Len(fb.log) : fb.log[j].outcome = "throw"

\* C26: robustHash with fallback returns the digest of the first backend
\* of the order that succeeds; it throws 'MD5 hash failed after all
\* attempts: ...', with every failed backend named, exactly when all the
\* backends of the order have failed; what it returns is never null or
\* undefined.
C26_RobustHash ==
  (sut = "FallbackManager" /\ fb.op = "robustHash" /\ fb.phase = "returned") =>
    /\ fb.thrown # "" <=> AllFailed
    /\ fb.thrown # "" =>
         fb.thrown = "MD5 hash failed after all attempts: nodecrypto: nodecrypto failed, "
                     \o "webcrypto: webcrypto failed, ie11: ie11 failed, "
                     \o "purejs: purejs failed"
    /\ fb.thrown = "" =>
         /\ fb.returned = HelloDigest
         /\ fb.returned \notin {"null", "undefined", ""}
         /\ fb.log[Len(fb.log)].outcome = "ok"
         /\ \A j \in 1..(Len(fb.log) - 1) : fb.log[j].outcome = "throw"

\* three backends failed and purejs returned the digest
C26_Witness ==
  /\ sut = "FallbackManager"
  /\ fb.op = "robustHash"
  /\ fb.phase = "returned"
  /\ Len(fb.log) = 4
  /\ fb.result.backend = "purejs"
  /\ fb.returned = "5d41402abc4b2a76b9719d911017c592"
  /\ fb.thrown = ""

(***************************************************************************)
(* MetricsCollector                                                        *)
(***************************************************************************)
RECURSIVE CallsOver(_, _)
CallsOver(calls, names) ==
  IF names = {} THEN 0
  ELSE LET b == CHOOSE x \in names : TRUE
       IN  calls[b].success + calls[b].fail + CallsOver(calls, names \ {b})

\* C27: for each of the four known backends the success and the fail
\* counter equal the number of recordSuccess and recordFail calls made for
\* it since the last reset; a call naming another backend changes no
\* counter and does not throw; the total of getSummary is the sum of all
\* the counters.
C27_MetricsCounters ==
  /\ [](sut = "MetricsCollector" =>
         /\ \A b \in KnownBackends :
              /\ metrics.this.metrics[b].success = metrics.calls[b].success
              /\ metrics.this.metrics[b].fail = metrics.calls[b].fail
         /\ DOMAIN metrics.this.metrics = KnownBackends
         /\ ~metrics.threw
         /\ metrics.last = "getSummary" =>
              metrics.summary = CallsOver(metrics.calls, KnownBackends))
  /\ [][sut = "MetricsCollector" =>
         \A b \in BackendNames \ KnownBackends :
            (metrics'.calls[b].success + metrics'.calls[b].fail
               > metrics.calls[b].success + metrics.calls[b].fail) =>
               metrics'.this.metrics = metrics.this.metrics]_vars

\* two successes and a failure, a call for an inherited name among them
C27_Witness ==
  /\ sut = "MetricsCollector"
  /\ metrics.last = "getSummary"
  /\ metrics.summary = 2
  /\ metrics.this.metrics["nodecrypto"] = [success |-> 1, fail |-> 0]
  /\ metrics.this.metrics["webcrypto"] = [success |-> 0, fail |-> 1]
  /\ metrics.calls["constructor"].success = 1

(***************************************************************************)
(* PureJSBackend as a streaming hasher                                     *)
(***************************************************************************)
\* C28: on a backend that is new or has been reset, update(d1), ...,
\* update(dn) followed by digest() returns what hash(d1 + ... + dn) returns;
\* right after reset() the accumulated data is empty and digest() returns
\* the digest of the empty message.
C28_BackendStreaming ==
  (sut = "PureJSBackend" /\ pjInputs.start \in {"new", "reset"}) =>
     /\ pjLastOp = "digest" =>
          \A i \in 1..Len(pjDigests) : pjDigests[i] = hash(pjInputs.data)
     /\ pjLastOp = "reset" =>
          /\ pjData = << >>
          /\ digest(Backend).result = "d41d8cd98f00b204e9800998ecf8427e"

\* after a reset, update("a"), update("bc") and digest()
C28_Witness ==
  /\ sut = "PureJSBackend" /\ pjInputs = [start |-> "reset", data |-> <<97, 98, 99>>]
  /\ pjLastOp = "digest"
  /\ pjDigests = <<"900150983cd24fb0d6963f7d28e17f72">>

(***************************************************************************)
(* What changes the state words                                            *)
(***************************************************************************)
\* md5cycle applied to words for the blocks i.. of blocks, in order
RECURSIVE CycleOver(_, _, _)
CycleOver(words, blocks, i) ==
  IF i > Len(blocks) THEN words
  ELSE CycleOver(md5cycle(words, blocks[i], "add32"), blocks, i + 1)

\* the step completes a 64-byte block of the bytes written in the session
CompletesBlock == written' \div 64 > written \div 64

\* the words after the step are md5cycle applied to the words before it
\* for the blocks the step added to the history
ByCompression ==
  /\ Len(fed') > Len(fed)
  /\ SubSeq(fed', 1, Len(fed)) = fed
  /\ state' = CycleOver(state, fed', Len(fed) + 1)

\* a write() that completes no block leaves the words as they were, and so
\* do the two getters
WordsKept ==
  /\ (lastOp' = "write" /\ ~CompletesBlock /\ bufferLength' < 64) => state' = state
  /\ lastOp' \in {"getCurrentState", "getBytesProcessed"} => state' = state

\* C29 as the specification states it: the state words change only when
\* md5cycle is applied to a complete 64-byte block or, during
\* finalization, to a padding block.
C29_OnlyByCompression ==
  [][sut = "MD5Stream" =>
       /\ WordsKept
       /\ state' # state =>
            /\ ByCompression
            /\ \/ lastOp' = "write" /\ CompletesBlock
               \/ lastOp' = "end" /\ ~ended]_vars

\* C29: state words change only by compression or by reset().  A write()
\* after which fewer than 64 bytes are pending and that completed no block
\* leaves the four words unchanged, and so do getCurrentState() and
\* getBytesProcessed(); the words change only when md5cycle is applied to a
\* complete 64-byte block of the written bytes, when it is applied to a
\* padding block during finalization, or when reset() replaces them with
\* the initial constants.
C29_OnlyByCompressionOrReset ==
  [][sut = "MD5Stream" =>
       /\ WordsKept
       /\ state' # state =>
            \/ /\ ByCompression
               /\ \/ /\ lastOp' = "write" /\ CompletesBlock
                     /\ \A j \in (Len(fed) + 1)..Len(fed') :
                           fed'[j] = BlockAt(Messages[msg], 64 * (j - 1))
                  \/ lastOp' = "end" /\ ~ended
            \/ lastOp' = "reset" /\ state' = initialMD5State /\ fed' = << >>]_vars

\* 80 bytes written in chunks of 64 and 16: one block compressed, and the
\* getter called on the 16 pending bytes returns the words of that block
C29_Witness ==
  /\ sut = "MD5Stream" /\ msg = 7 /\ written = 80 /\ bufferLength = 16
  /\ Len(fed) = 1
  /\ state = md5cycle(initialMD5State, BlockAt(Messages[7], 0), "add32")
  /\ state # initialMD5State
  /\ lastOp = "getCurrentState" /\ snap.held /\ snap.value.state = state

(***************************************************************************)
(* The one-shot functions and the stream                                   *)
(***************************************************************************)
\* every byte of B is below 128: B is the UTF-8 form of a string with the
\* same character codes
Ascii(B) == \A i \in 1..Len(B) : B[i] < 128

\* C30: one-shot and streaming agree.  For the bytes B a finalized session
\* accepted, md5Buffer(B) is the digest the MD5Stream emitted, and when
\* every byte of B is below 128 md5Core of the string is that digest too;
\* md5buf, the stream and (for such B) md51 hand the same blocks, padding
\* blocks included, to md5cycle in the same order.
C30_OneShotAndStreamAgree ==
  /\ (sut = "MD5Stream" /\ result # NoResult) =>
        /\ md5Buffer(Accepted) = result.digest
        /\ md5bufBlocks(Accepted) = fed
        /\ Ascii(Accepted) =>
             /\ md5Core(Accepted) = result.digest
             /\ md51Blocks(Accepted) = fed
             /\ md51(Accepted, "add32")
                  = Cycles(initialMD5State, md51Blocks(Accepted), 1, "add32")
  /\ (sut = "md5" /\ oneShot # NoCall) =>
        /\ oneShot.md5Buffer = SingleWrite(Messages[oneShot.input]).md5.digest
        /\ Ascii(Messages[oneShot.input]) => oneShot.md5Core = oneShot.md5Buffer

\* 56 bytes, some of them above 127, written in two or more chunks and
\* finalized: two padding blocks
C30_Witness ==
  /\ sut = "MD5Stream" /\ msg = NumMessages /\ written = 56 /\ writes = 2
  /\ result # NoResult
  /\ ~Ascii(Accepted)
  /\ Len(fed) = 2
  /\ result.digest = md5Buffer(Accepted)

(***************************************************************************)
(* Failure of execute                                                      *)
(***************************************************************************)
\* C31: execute returns success = false only after the operation has been
\* attempted once on every entry of fallbackOrder, and errors then holds
\* one entry per entry of fallbackOrder, in order; for every order, orders
\* that repeat a name and the empty order included.
C31_ExhaustiveFallback ==
  (sut = "FallbackManager" /\ fb.op = "execute" /\ fb.phase = "executed"
     /\ ~fb.result.success) =>
    /\ Len(fb.log) = Len(fb.order)
    /\ \A j \in 1..Len(fb.order) :
          fb.log[j].backend = fb.order[j] /\ fb.log[j].outcome = "throw"
    /\ Len(fb.errors) = Len(fb.order)
    /\ \A j \in 1..Len(fb.order) : fb.errors[j].backend = fb.order[j]

\* the best member of the available backends of env, by priority
BestOf(env) ==
  IF "nodecrypto" \in env THEN "nodecrypto"
  ELSE IF "webcrypto" \in env THEN "webcrypto"
  ELSE IF "ie11" \in env THEN "ie11" ELSE "purejs"

\* C32: robustHash with forceBackend = n, or with fallback: false,
\* attempts exactly one backend, the one named n (the best available
\* one), and propagates its error without trying another backend; the
\* backend used is never another one than the one named.
C32_NoFallbackWhenForced ==
  (sut = "FallbackManager" /\ fb.phase = "returned"
     /\ fb.op \in {"robustHash(forceBackend)", "robustHash(fallback: false)"}) =>
    /\ Len(fb.log) = 1
    /\ fb.log[1].class = IF fb.op = "robustHash(forceBackend)" THEN fb.force
                         ELSE BestOf(fb.env)
    /\ fb.log[1].outcome = "throw" => fb.thrown # "" /\ fb.returned = ""
    /\ fb.log[1].outcome = "ok" => fb.thrown = "" /\ fb.returned = HelloDigest

(***************************************************************************)
(* The best of a list of backends                                          *)
(***************************************************************************)
Rank(name) ==
  CASE name = "nodecrypto" -> 1 [] name = "webcrypto" -> 2 [] name = "ie11" -> 3
    [] name = "purejs" -> 4 [] OTHER -> 5

\* r is the answer for list: the known member of best rank, or "purejs"
BestFor(list, r) ==
  /\ r \in KnownNames
  /\ (\E j \in 1..Len(list) : list[j] \in KnownNames) =>
        /\ \E j \in 1..Len(list) : list[j] = r
        /\ \A j \in 1..Len(list) : Rank(r) <= Rank(list[j])
  /\ (\A j \in 1..Len(list) : list[j] \notin KnownNames) => r = "purejs"

\* C33: getBestAvailableBackend(list) returns the member of list that comes
\* first in the order nodecrypto, webcrypto, ie11, purejs, whatever the
\* order of list, and "purejs" when list holds none of the four names; the
\* result is always one of the four names.
C33_BestAvailableBackend ==
  sut = "getBestAvailableBackend" =>
    /\ call.returned # "" => BestFor(call.list, call.returned)
    /\ call.reversed # "" => BestFor(call.list, call.reversed)
    /\ (call.returned # "" /\ call.reversed # "") => call.returned = call.reversed

\* webcrypto listed last, after purejs and an unknown name
C33_Witness ==
  /\ sut = "getBestAvailableBackend"
  /\ call.list = <<"purejs", "legacy", "webcrypto">>
  /\ call.returned = "webcrypto" /\ call.reversed = "webcrypto"

(***************************************************************************)
(* StreamBackend                                                           *)
(***************************************************************************)
\* the promise digest() returned has been resolved with a digest
Resolved(p) == p \notin {"pending", "rejected: write after end"}

\* the caller has used the backend again after digest()
CallerWentOn == sb.op \in {"update", "reset"}

\* C34: the promise digest() returns on a backend initialised with a Node
\* MD5Stream is always eventually resolved with the digest of the data
\* passed to update(), whenever _flush runs relative to end() and to the
\* registration of the 'md5' listener.
C34_DigestResolves ==
  (sut = "StreamBackend" /\ Len(sb.promises) >= 1)
     ~> \/ /\ Len(sb.promises) >= 1
           /\ Resolved(sb.promises[1])
           /\ sb.promises[1] = SingleWrite(Accepted).md5.digest
        \/ CallerWentOn

\* what a call on the backend leaves of the Node stream and of the promises
SbUntouched == UNCHANGED <<streamVars, msg>> /\ sb'.promises = sb.promises

\* C37: on a StreamBackend that was never initialised, update() and digest()
\* throw 'Stream backend not initialized...' and reset() returns without
\* throwing; each of the three leaves the backend uninitialised and touches
\* neither a stream nor a promise; only initNodeStream initialises it
C37_BeforeInitialisation ==
  [][(sut = "StreamBackend" /\ sb.state = "null") =>
        /\ sb'.op \in {"update", "digest"} =>
              sb'.thrown = NotInitialized /\ sb'.state = "null" /\ SbUntouched
        /\ sb'.op = "reset" =>
              sb'.thrown = "" /\ sb'.state = "null" /\ SbUntouched
        /\ sb'.state # "null" => sb'.op = "initNodeStream"]_vars

C37_Witness ==
  /\ sut = "StreamBackend"
  /\ sb.state = "null"
  /\ sb.op = "digest"
  /\ sb.thrown = NotInitialized


(***************************************************************************)
(* The caller's chunk                                                      *)
(***************************************************************************)
\* C35: after write(chunk) has been processed, every byte of the caller's
\* chunk buffer has the value it had before the write, whatever the length of
\* the chunk and of the pending buffer
C35_WriteKeepsChunk ==
  (sut = "MD5Stream" /\ lastOp = "write") => call.after = call.chunk


(***************************************************************************)
(* Characters and block words                                              *)
(***************************************************************************)
\* byte k (0..3) of a 32-bit word, little-endian
ByteOfWord(w, k) == (w \div Pow2[8 * k]) % 256

\* C36: in the blocks md51 hands to md5cycle, the character at index i of
\* the string accounts for byte (i mod 4) of word (i div 4) of its block,
\* with the low 8 bits of its code unit and nothing else, inside the full
\* 64-character blocks as in the final partial block
C36_UniformBytes ==
  (sut = "md51" /\ call.called) =>
     \A i \in 0..(Len(call.s) - 1) :
        ByteOfWord(call.blocks[(i \div 64) + 1][((i % 64) \div 4) + 1], i % 4)
          = call.s[i + 1] % 256


(***************************************************************************)
(* createProgressTracker                                                   *)
(***************************************************************************)
\* the last call of the callback invoked onUpdate
Invoked == call.current # NoArgument /\ call.invoked

\* C38: every percentage onUpdate receives is at most 100; onUpdate is
\* invoked only when the floor of the percentage differs from the floor of
\* the percentage it received last (0 before the first); it is never invoked
\* when totalSize <= 0; and a call with current = totalSize > 0 that follows
\* a call with a smaller current invokes it with exactly 100
C38_ProgressTracker ==
  sut = "createProgressTracker" =>
     /\ Invoked => call.percentage.num <= 100 * call.percentage.den
     /\ Invoked => Floor(call.percentage) # Floor(call.reportedBefore)
     /\ call.totalSize <= 0 => ~Invoked
     /\ (/\ call.totalSize > 0
         /\ call.current = call.totalSize
         /\ call.previous # NoArgument
         /\ call.previous < call.current)
           => Invoked /\ call.percentage = Percent(100, 1)

C38_Witness ==
  /\ sut = "createProgressTracker"
  /\ call.totalSize = 3
  /\ call.previous = 2
  /\ call.current = 3
  /\ call.reportedBefore = Percent(200, 3)
  /\ call.reported = Percent(100, 1)

====
